---------------------------- MODULE Spec2Model ----------------------------
(***************************************************************************)
(* Model of n8n-nodes-imap-tools: the IMAP Encoding Scan node (criteria    *)
(* flattening and compilation, the encoding matcher, the scan loop and its *)
(* session handling) and the Message-ID based IMAP Move node.              *)
(*                                                                         *)
(* JavaScript values are tagged records [t |-> type, v |-> value]; a JS    *)
(* object is a function from its keys to tagged values.  A string that the *)
(* code inspects piecewise (an encoding, a header block) is a sequence of  *)
(* lexemes; a string the code only copies or compares is a TLA+ string.    *)
(***************************************************************************)
EXTENDS Integers, Sequences, FiniteSets, TLC

\* ------------------------------------------------------------------ bounds

\* Longest identifier list the external search returns in the model.
MaxCandidates == 4

\* Largest configured maximum-match-count option in the model.
MaxMaxResults == 2

\* ------------------------------------------------------------ JS values

Null == [t |-> "null"]
Str(s) == [t |-> "str", v |-> s]
Num(n) == [t |-> "num", v |-> n]
Bool(b) == [t |-> "bool", v |-> b]
Arr(s) == [t |-> "arr", v |-> s]
Obj(f) == [t |-> "obj", v |-> f]

\* The object literal {} : a function with no keys.
EmptyObject == <<>>

\* Object.keys(o)
ObjectKeys(o) == DOMAIN o

\* { ...o, [k]: v } and the assignment o.k = v
Put(o, k, v) == (k :> v) @@ o

\* String(current) for the primitives a JSON document can hold.
NumText == [n \in 0..9 |-> CASE n = 0 -> "0" [] n = 1 -> "1" [] n = 2 -> "2"
                             [] n = 3 -> "3" [] n = 4 -> "4" [] n = 5 -> "5"
                             [] n = 6 -> "6" [] n = 7 -> "7" [] n = 8 -> "8"
                             [] OTHER -> "9"]

StringOf(x) ==
    CASE x.t = "str" -> x.v
      [] x.t = "num" -> NumText[x.v]
      [] x.t = "bool" -> IF x.v THEN "true" ELSE "false"

\* ----------------------------------------------------- flattenSearchTokens

Thrown(msg) == [ok |-> FALSE, error |-> msg]
Returned(val) == [ok |-> TRUE, value |-> val]

NestedObjectError == <<"Search criteria arrays may not contain nested objects.">>

\* A variant of the walk that passes over an object as it passes over null.
RECURSIVE recurseSkippingObjects(_, _)
recurseSkippingObjects(current, tokens) ==
    CASE current.t \in {"null", "obj"} -> Returned(tokens)
      [] current.t = "arr" ->
            IF current.v = <<>> THEN Returned(tokens)
            ELSE recurseSkippingObjects(Arr(Tail(current.v)),
                     recurseSkippingObjects(Head(current.v), tokens).value)
      [] OTHER -> Returned(Append(tokens, StringOf(current)))

\* recurse(current) appending to the tokens collected so far; the throw
\* abandons the walk at the first object met.
RECURSIVE recurse(_, _)
RECURSIVE recurseEntries(_, _)
recurse(current, tokens) ==
    CASE current.t = "null" -> Returned(tokens)
      [] current.t = "arr" -> recurseEntries(current.v, tokens)
      [] current.t = "obj" -> Thrown(NestedObjectError)
      [] OTHER -> Returned(Append(tokens, StringOf(current)))

recurseEntries(entries, tokens) ==
    IF entries = <<>> THEN Returned(tokens)
    ELSE LET r == recurse(Head(entries), tokens)
         IN  IF r.ok THEN recurseEntries(Tail(entries), r.value) ELSE r

\* A variant that puts each token before the tokens collected so far, as
\* tokens.unshift would.
flattenUnshifting(value) ==
    LET r == recurse(value, <<>>)
    IN  IF r.ok THEN Returned([i \in 1..Len(r.value) |-> r.value[Len(r.value) + 1 - i]])
        ELSE r

flattenSearchTokens(value) == recurse(value, <<>>)


\* ---------------------------------------------------- tokensToSearchObject

\* String.prototype.toUpperCase / toLowerCase on the strings of the model:
\* each text with its upper-case and its lower-case form.  The texts are
\* every keyword of the switch in upper case, in lower case and capitalized,
\* and the other texts the criteria of the model hold.
CaseVariants ==
    {<<"ALL", "ALL", "all">>, <<"all", "ALL", "all">>, <<"All", "ALL", "all">>,
     <<"SEEN", "SEEN", "seen">>, <<"seen", "SEEN", "seen">>,
     <<"Seen", "SEEN", "seen">>, <<"UNSEEN", "UNSEEN", "unseen">>,
     <<"unseen", "UNSEEN", "unseen">>, <<"Unseen", "UNSEEN", "unseen">>,
     <<"ANSWERED", "ANSWERED", "answered">>, <<"answered", "ANSWERED", "answered">>,
     <<"Answered", "ANSWERED", "answered">>,
     <<"UNANSWERED", "UNANSWERED", "unanswered">>,
     <<"unanswered", "UNANSWERED", "unanswered">>,
     <<"Unanswered", "UNANSWERED", "unanswered">>, <<"DELETED", "DELETED", "deleted">>,
     <<"deleted", "DELETED", "deleted">>, <<"Deleted", "DELETED", "deleted">>,
     <<"UNDELETED", "UNDELETED", "undeleted">>,
     <<"undeleted", "UNDELETED", "undeleted">>,
     <<"Undeleted", "UNDELETED", "undeleted">>, <<"DRAFT", "DRAFT", "draft">>,
     <<"draft", "DRAFT", "draft">>, <<"Draft", "DRAFT", "draft">>,
     <<"UNDRAFT", "UNDRAFT", "undraft">>, <<"undraft", "UNDRAFT", "undraft">>,
     <<"Undraft", "UNDRAFT", "undraft">>, <<"FLAGGED", "FLAGGED", "flagged">>,
     <<"flagged", "FLAGGED", "flagged">>, <<"Flagged", "FLAGGED", "flagged">>,
     <<"UNFLAGGED", "UNFLAGGED", "unflagged">>,
     <<"unflagged", "UNFLAGGED", "unflagged">>,
     <<"Unflagged", "UNFLAGGED", "unflagged">>, <<"RECENT", "RECENT", "recent">>,
     <<"recent", "RECENT", "recent">>, <<"Recent", "RECENT", "recent">>,
     <<"OLD", "OLD", "old">>, <<"old", "OLD", "old">>, <<"Old", "OLD", "old">>,
     <<"NEW", "NEW", "new">>, <<"new", "NEW", "new">>, <<"New", "NEW", "new">>,
     <<"FROM", "FROM", "from">>, <<"from", "FROM", "from">>,
     <<"From", "FROM", "from">>, <<"TO", "TO", "to">>, <<"to", "TO", "to">>,
     <<"To", "TO", "to">>, <<"CC", "CC", "cc">>, <<"cc", "CC", "cc">>,
     <<"Cc", "CC", "cc">>, <<"BCC", "BCC", "bcc">>, <<"bcc", "BCC", "bcc">>,
     <<"Bcc", "BCC", "bcc">>, <<"SUBJECT", "SUBJECT", "subject">>,
     <<"subject", "SUBJECT", "subject">>, <<"Subject", "SUBJECT", "subject">>,
     <<"BODY", "BODY", "body">>, <<"body", "BODY", "body">>,
     <<"Body", "BODY", "body">>, <<"LARGER", "LARGER", "larger">>,
     <<"larger", "LARGER", "larger">>, <<"Larger", "LARGER", "larger">>,
     <<"SMALLER", "SMALLER", "smaller">>, <<"smaller", "SMALLER", "smaller">>,
     <<"Smaller", "SMALLER", "smaller">>, <<"BEFORE", "BEFORE", "before">>,
     <<"before", "BEFORE", "before">>, <<"Before", "BEFORE", "before">>,
     <<"ON", "ON", "on">>, <<"on", "ON", "on">>, <<"On", "ON", "on">>,
     <<"SINCE", "SINCE", "since">>, <<"since", "SINCE", "since">>,
     <<"Since", "SINCE", "since">>, <<"SENTBEFORE", "SENTBEFORE", "sentbefore">>,
     <<"sentbefore", "SENTBEFORE", "sentbefore">>,
     <<"Sentbefore", "SENTBEFORE", "sentbefore">>, <<"SENTON", "SENTON", "senton">>,
     <<"senton", "SENTON", "senton">>, <<"Senton", "SENTON", "senton">>,
     <<"SENTSINCE", "SENTSINCE", "sentsince">>,
     <<"sentsince", "SENTSINCE", "sentsince">>,
     <<"Sentsince", "SENTSINCE", "sentsince">>, <<"UID", "UID", "uid">>,
     <<"uid", "UID", "uid">>, <<"Uid", "UID", "uid">>,
     <<"HEADER", "HEADER", "header">>, <<"header", "HEADER", "header">>,
     <<"Header", "HEADER", "header">>, <<"alice", "ALICE", "alice">>,
     <<"bogus", "BOGUS", "bogus">>, <<"X-Test", "X-TEST", "x-test">>,
     <<"X-Other", "X-OTHER", "x-other">>, <<"x-test", "X-TEST", "x-test">>,
     <<"x-other", "X-OTHER", "x-other">>, <<"TRUE", "TRUE", "true">>,
     <<"True", "TRUE", "true">>, <<"true", "TRUE", "true">>,
     <<"FALSE", "FALSE", "false">>, <<"False", "FALSE", "false">>,
     <<"false", "FALSE", "false">>, <<"value2", "VALUE2", "value2">>,
     <<"5", "5", "5">>, <<"", "", "">>, <<"seenx", "SEENX", "seenx">>}

\* The row of a text of the model, and the two conversions; a text without
\* row has no letter.
HasCase(s) == \E v \in CaseVariants : v[1] = s
caseRow(s) == CHOOSE v \in CaseVariants : v[1] = s

toUpperCase(s) == IF HasCase(s) THEN caseRow(s)[2] ELSE s
toLowerCase(s) == IF HasCase(s) THEN caseRow(s)[3] ELSE s

\* Number(text): the decimal texts of the model, NaN for any other text.
NaN == [t |-> "nan", v |-> 0]
NumberOf(s) ==
    IF \E n \in DOMAIN NumText : NumText[n] = s
    THEN Num(CHOOSE n \in DOMAIN NumText : NumText[n] = s)
    ELSE NaN

\* The switch of tokensToSearchObject: the cases that take no argument, with
\* the field each assigns and the boolean it assigns.
FlagField ==
    [k \in {"ALL", "SEEN", "UNSEEN", "ANSWERED", "UNANSWERED", "DELETED",
            "UNDELETED", "DRAFT", "UNDRAFT", "FLAGGED", "UNFLAGGED", "RECENT",
            "OLD", "NEW"} |->
        CASE k = "ALL" -> "all"
          [] k \in {"SEEN", "UNSEEN"} -> "seen"
          [] k \in {"ANSWERED", "UNANSWERED"} -> "answered"
          [] k \in {"DELETED", "UNDELETED"} -> "deleted"
          [] k \in {"DRAFT", "UNDRAFT"} -> "draft"
          [] k \in {"FLAGGED", "UNFLAGGED"} -> "flagged"
          [] k = "RECENT" -> "recent"
          [] k = "OLD" -> "old"
          [] OTHER -> "new"]

\* A variant in which every flag assigns true.
FlagValueAlwaysTrue(k) == TRUE

FlagValue(k) == k \notin {"UNSEEN", "UNANSWERED", "UNDELETED", "UNDRAFT", "UNFLAGGED"}

\* A variant that names each field by its keyword in lower case.
ArgFieldLowerCased ==
    [k \in {"FROM", "TO", "CC", "BCC", "SUBJECT", "BODY", "LARGER", "SMALLER",
            "BEFORE", "ON", "SINCE", "SENTBEFORE", "SENTON", "SENTSINCE", "UID"} |->
        toLowerCase(k)]

\* The cases that take the next token as their value, with the field each
\* assigns.
ArgField ==
    [k \in {"FROM", "TO", "CC", "BCC", "SUBJECT", "BODY", "LARGER", "SMALLER",
            "BEFORE", "ON", "SINCE", "SENTBEFORE", "SENTON", "SENTSINCE", "UID"} |->
        CASE k = "FROM" -> "from" [] k = "TO" -> "to" [] k = "CC" -> "cc"
          [] k = "BCC" -> "bcc" [] k = "SUBJECT" -> "subject" [] k = "BODY" -> "body"
          [] k = "LARGER" -> "larger" [] k = "SMALLER" -> "smaller"
          [] k = "BEFORE" -> "before" [] k = "ON" -> "on" [] k = "SINCE" -> "since"
          [] k = "SENTBEFORE" -> "sentBefore" [] k = "SENTON" -> "sentOn"
          [] k = "SENTSINCE" -> "sentSince" [] OTHER -> "uid"]

\* A variant that stores the value upper-cased, as the keyword is compared.
ArgValueCaseFolded(k, next) ==
    IF k \in {"LARGER", "SMALLER"} THEN NumberOf(next) ELSE Str(toUpperCase(next))

ArgValue(k, next) == IF k \in {"LARGER", "SMALLER"} THEN NumberOf(next) ELSE Str(next)

\* The message nextToken(keyword) throws when the token list is exhausted.
MissingValueError(keyword) == <<keyword, " requires an additional value.">>

\* A variant of the message that quotes the token as it was compared.
UnsupportedTokenErrorUpperCased(rawToken) ==
    <<"Unsupported search token ", toUpperCase(rawToken)>>

\* The message of the default case, quoting the token as supplied.
UnsupportedTokenError(rawToken) == <<"Unsupported search token ", rawToken>>

MatchAll == [k \in {"all"} |-> Bool(TRUE)]

\* The HEADER case: the value is a boolean when it spells true or false.
parsedValue(headerValue) ==
    IF toLowerCase(headerValue) = "true" THEN Bool(TRUE)
    ELSE IF toLowerCase(headerValue) = "false" THEN Bool(FALSE)
    ELSE Str(headerValue)

\* A variant in which each HEADER starts from an empty mapping.
headerOfNone(search) == EmptyObject

headerOf(search) == IF "header" \in DOMAIN search THEN search["header"].v ELSE EmptyObject

\* A variant that returns the object as it was built, keys or none.
searchAsBuilt(search) == search

\* Line 172 and line 428: an object without keys gives way to { all: true }.
searchOrAll(search) == IF Cardinality(ObjectKeys(search)) > 0 THEN search ELSE MatchAll

\* What one iteration of the while loop leaves: the tokens still to shift,
\* the search object, the number of tokens it shifted, and the error it
\* threw, if any.
Iteration(tokens, search, used) ==
    [ok |-> TRUE, tokens |-> tokens, search |-> search, used |-> used, error |-> <<>>]
IterationThrown(tokens, search, used, error) ==
    [ok |-> FALSE, tokens |-> tokens, search |-> search, used |-> used, error |-> error]

\* A variant of the iteration in which a keyword without its value is
\* passed over instead of throwing.
compileStepLenient(tokens, search) ==
    LET rawToken == Head(tokens)
        token == toUpperCase(rawToken)
        rest == Tail(tokens)
    IN  CASE token \in DOMAIN FlagField ->
               Iteration(rest, Put(search, FlagField[token], Bool(FlagValue(token))), 1)
          [] token \in DOMAIN ArgField ->
               IF rest = <<>>
               THEN Iteration(rest, search, 1)
               ELSE Iteration(Tail(rest),
                              Put(search, ArgField[token], ArgValue(token, Head(rest))), 2)
          [] token = "HEADER" ->
               IF Len(rest) < 2
               THEN Iteration(<<>>, search, 1 + Len(rest))
               ELSE Iteration(Tail(Tail(rest)),
                        Put(search, "header",
                            Obj(Put(headerOf(search), toLowerCase(rest[1]),
                                    parsedValue(rest[2])))), 3)
          [] OTHER -> IterationThrown(rest, search, 1, UnsupportedTokenError(rawToken))

\* Lines 60-169: one iteration of the while loop of tokensToSearchObject on
\* a non-empty tokens array.
compileStep(tokens, search) ==
    LET rawToken == Head(tokens)
        token == toUpperCase(rawToken)
        rest == Tail(tokens)
    IN  CASE token \in DOMAIN FlagField ->
               Iteration(rest, Put(search, FlagField[token], Bool(FlagValue(token))), 1)
          [] token \in DOMAIN ArgField ->
               IF rest = <<>>
               THEN IterationThrown(rest, search, 1, MissingValueError(token))
               ELSE Iteration(Tail(rest),
                              Put(search, ArgField[token], ArgValue(token, Head(rest))), 2)
          [] token = "HEADER" ->
               IF Len(rest) < 2
               THEN IterationThrown(<<>>, search, 1 + Len(rest), MissingValueError(token))
               ELSE LET headerKey == rest[1]
                        headerValue == rest[2]
                        cleanKey == toLowerCase(headerKey)
                    IN  Iteration(Tail(Tail(rest)),
                            Put(search, "header",
                                Obj(Put(headerOf(search), cleanKey,
                                        parsedValue(headerValue)))), 3)
          [] OTHER -> IterationThrown(rest, search, 1, UnsupportedTokenError(rawToken))

\* The while loop of tokensToSearchObject over the tokens still to shift,
\* with the search object built so far; each iteration's outcome is bound
\* once and the loop goes on from it.
RECURSIVE compileLoop(_, _)
compileLoop(tokens, search) ==
    IF tokens = <<>>
    THEN Returned(searchOrAll(search))
    ELSE CHOOSE result \in
                {IF step.ok THEN compileLoop(step.tokens, step.search)
                 ELSE Thrown(step.error) : step \in {compileStep(tokens, search)}} : TRUE

tokensToSearchObject(tokens) == compileLoop(tokens, EmptyObject)


\* ------------------------------------------------------------- the matcher

\* An encoding or a header line is a sequence of lexemes: words and single
\* whitespace characters.
Whitespace == {" ", "\t"}

\* value.replace(/\s+/g, ' '): every run of whitespace becomes one space.
RECURSIVE collapseWhitespace(_)
collapseWhitespace(s) ==
    IF s = <<>> THEN <<>>
    ELSE IF Head(s) \in Whitespace
         THEN IF Len(s) > 1 /\ s[2] \in Whitespace
              THEN collapseWhitespace(Tail(s))
              ELSE <<" ">> \o collapseWhitespace(Tail(s))
         ELSE <<Head(s)>> \o collapseWhitespace(Tail(s))

\* String.prototype.trim
RECURSIVE trimStart(_)
trimStart(s) ==
    IF s # <<>> /\ Head(s) \in Whitespace THEN trimStart(Tail(s)) ELSE s

RECURSIVE trimEnd(_)
trimEnd(s) ==
    IF s # <<>> /\ s[Len(s)] \in Whitespace THEN trimEnd(SubSeq(s, 1, Len(s) - 1)) ELSE s

trim(s) == trimEnd(trimStart(s))

\* cleanEncoding: '' for a missing or empty value.
cleanEncoding(value) == IF value # <<>> THEN trim(collapseWhitespace(value)) ELSE <<>>

\* The patterns of the model: the parameter's default, whose quote after
\* AMAZONSES is optional and so has no part in a test, and two others.
\* new RegExp(source) throws for a source that is no regular expression.
DefaultPattern == "(?:AMAZONSES\"?|8bit\\s*\\+)"
Base64Pattern == "base64"
BrokenPattern == "8bit("

\* A variant of the compilation check that accepts every pattern text.
RegExpAlwaysCompiles(source) == TRUE

RegExpCompiles(source) == source \in {DefaultPattern, Base64Pattern}

\* A lexeme with its letters lower-cased, as the i flag compares them.
FoldTable ==
    [x \in {"8BIT", "AMAZONSES", "Base64"} |->
        CASE x = "8BIT" -> "8bit" [] x = "AMAZONSES" -> "amazonses" [] OTHER -> "base64"]

fold(x) == IF x \in DOMAIN FoldTable THEN FoldTable[x] ELSE x

\* Whether lexeme x of the text is the pattern's word w under the flags.
lexemeIs(regex, x, w) == IF regex.ignoreCase THEN fold(x) = fold(w) ELSE x = w

\* regex.test(text): an unanchored search of the text.
regexTest(regex, text) ==
    \E i \in 1..Len(text) :
        IF regex.source = Base64Pattern
        THEN lexemeIs(regex, text[i], "base64")
        ELSE \/ lexemeIs(regex, text[i], "AMAZONSES")
             \/ /\ lexemeIs(regex, text[i], "8bit")
                /\ \E j \in (i + 1)..Len(text) :
                      /\ text[j] = "+"
                      /\ \A k \in (i + 1)..(j - 1) : text[k] \in Whitespace

\* describeStructure: the labels present, joined by spaces; an absent label
\* is the empty string.
describeStructure(node) ==
    LET parts == (IF node.type # "" THEN <<node.type>> ELSE <<>>)
                 \o (IF node.part # "" THEN <<"part", node.part>> ELSE <<>>)
                 \o (IF node.disposition # "" THEN <<node.disposition>> ELSE <<>>)
    IN  IF Len(parts) > 0 THEN parts ELSE <<"message">>

\* `${describeStructure(node)}: ${encoding}`
structureMatch(node, encoding) == <<describeStructure(node), ": ", encoding>>

\* A variant of the loop body that enqueues the children of a node only when
\* the node itself did not match.
matchStepShortCircuit(stack, regex, matches) ==
    LET node == Head(stack)
        encoding == cleanEncoding(node.encoding)
        hit == encoding # <<>> /\ regexTest(regex, encoding)
    IN  [node |-> node,
         matches |-> IF hit THEN Append(matches, structureMatch(node, encoding)) ELSE matches,
         stack |-> IF hit THEN Tail(stack) ELSE Tail(stack) \o node.childNodes]

\* A variant of the loop body that puts the children of a node at the head
\* of the work queue, as stack.unshift would.
matchStepDepthFirst(stack, regex, matches) ==
    LET node == Head(stack)
        encoding == cleanEncoding(node.encoding)
    IN  [node |-> node,
         matches |-> IF encoding # <<>> /\ regexTest(regex, encoding)
                     THEN Append(matches, structureMatch(node, encoding))
                     ELSE matches,
         stack |-> node.childNodes \o Tail(stack)]

\* Lines 226-238: one iteration of the while loop of collectEncodingMatches
\* on a non-empty stack: the node shifted, the matches and the stack after.
matchStep(stack, regex, matches) ==
    LET node == Head(stack)
        encoding == cleanEncoding(node.encoding)
    IN  [node |-> node,
         matches |-> IF encoding # <<>> /\ regexTest(regex, encoding)
                     THEN Append(matches, structureMatch(node, encoding))
                     ELSE matches,
         stack |-> Tail(stack) \o node.childNodes]

\* The while loop of collectEncodingMatches: stack is the work queue, matches
\* the strings pushed so far.
RECURSIVE drainStack(_, _, _)
drainStack(stack, regex, matches) ==
    IF Len(stack) = 0 THEN matches
    ELSE LET step == matchStep(stack, regex, matches)
         IN  drainStack(step.stack, regex, step.matches)

\* An optional value (undefined, or a value) is a sequence of no or one
\* element.
Undefined == <<>>
Some(x) == <<x>>

\* collectEncodingMatches on the optional root node of a message.
collectEncodingMatches(structure, regex) ==
    IF structure = Undefined THEN <<>>
    ELSE drainStack(structure, regex, <<>>)


\* A raw header block is a sequence of physical lines, each a sequence of
\* lexemes whose first is the field name with its colon; a folded
\* continuation line starts with whitespace.

\* rawHeaders.replace(/\r?\n[ \t]+/g, ' '): a line break followed by
\* whitespace becomes one space, joining the line to the one before it.
RECURSIVE unfoldLines(_, _)
unfoldLines(lines, done) ==
    IF lines = <<>> THEN done
    ELSE LET line == Head(lines)
         IN  IF done # <<>> /\ line # <<>> /\ Head(line) \in Whitespace
             THEN unfoldLines(Tail(lines),
                      [done EXCEPT ![Len(done)] = @ \o <<" ">> \o trimStart(line)])
             ELSE unfoldLines(Tail(lines), Append(done, line))

unfoldHeaders(rawHeaders) == unfoldLines(rawHeaders, <<>>)

\* Field names as the i flag compares them.
FieldNameTable ==
    [x \in {"content-transfer-encoding:", "CONTENT-TRANSFER-ENCODING:", "message-id:",
            "Message-Id:"} |->
        CASE x \in {"content-transfer-encoding:", "CONTENT-TRANSFER-ENCODING:"}
                -> "Content-Transfer-Encoding:"
          [] OTHER -> "Message-ID:"]

fieldName(x) == IF x \in DOMAIN FieldNameTable THEN FieldNameTable[x] ELSE x

\* Index of the first line from i on that holds a character other than a
\* line break, 0 when there is none: where \s* stops after crossing breaks.
RECURSIVE nextNonEmpty(_, _)
nextNonEmpty(lines, i) ==
    IF i > Len(lines) THEN 0
    ELSE IF lines[i] # <<>> THEN i ELSE nextNonEmpty(lines, i + 1)

\* One match of /^<name>\s*(.+)$/im starting at line i or later:
\* [at |-> 0] when there is none, else the captured text and the line the
\* next search resumes at.  \s* also crosses line breaks, so a field with an
\* empty value captures the next non-empty line, and failing that its own
\* last whitespace character.
RECURSIVE execHeader(_, _, _)
execHeader(lines, name, i) ==
    IF i > Len(lines) THEN [at |-> 0]
    ELSE LET line == lines[i]
             rest == IF line = <<>> THEN <<>> ELSE trimStart(Tail(line))
             j == nextNonEmpty(lines, i + 1)
         IN  IF line # <<>> /\ fieldName(Head(line)) = name
             THEN IF rest # <<>> THEN [at |-> i, captured |-> rest, resume |-> i + 1]
                  ELSE IF j # 0 THEN [at |-> i, captured |-> lines[j], resume |-> j + 1]
                  ELSE IF Len(line) > 1
                       THEN [at |-> i, captured |-> <<line[Len(line)]>>, resume |-> i + 1]
                  ELSE execHeader(lines, name, i + 1)
             ELSE execHeader(lines, name, i + 1)

\* The while loop of collectHeaderEncodingMatches over headerRegex.exec.
RECURSIVE headerMatchLoop(_, _, _, _)
headerMatchLoop(unfolded, regex, i, matches) ==
    LET match == execHeader(unfolded, "Content-Transfer-Encoding:", i)
        cleaned == cleanEncoding(match.captured)
    IN  IF match.at = 0 THEN matches
        ELSE headerMatchLoop(unfolded, regex, match.resume,
                 IF cleaned # <<>> /\ regexTest(regex, cleaned)
                 THEN Append(matches, <<"headers: ", cleaned>>)
                 ELSE matches)

collectHeaderEncodingMatches(rawHeaders, regex) ==
    IF rawHeaders = <<>> THEN <<>>
    ELSE headerMatchLoop(unfoldHeaders(rawHeaders), regex, 1, <<>>)

\* A variant that looks in the header text first and in the envelope only
\* when the headers give nothing.
extractMessageIdHeadersFirst(envelope, rawHeaders) ==
    LET match == IF rawHeaders = Undefined \/ rawHeaders[1] = <<>> THEN [at |-> 0]
                 ELSE execHeader(unfoldHeaders(rawHeaders[1]), "Message-ID:", 1)
    IN  IF match.at # 0 THEN Some(trim(match.captured))
        ELSE IF envelope # Undefined /\ envelope[1].messageId # <<>>
        THEN Some(envelope[1].messageId)
        ELSE Undefined

\* extractMessageId on the optional envelope and the header text (undefined
\* when the message has no header buffer): the identifier, or Undefined.  An
\* envelope without identifier has messageId = <<>>.
extractMessageId(envelope, rawHeaders) ==
    IF envelope # Undefined /\ envelope[1].messageId # <<>> THEN Some(envelope[1].messageId)
    ELSE IF rawHeaders = Undefined \/ rawHeaders[1] = <<>> THEN Undefined
    ELSE LET match == execHeader(unfoldHeaders(rawHeaders[1]), "Message-ID:", 1)
         IN  IF match.at = 0 THEN Undefined ELSE Some(trim(match.captured))


\* Array.from(new Set(list)): the first occurrence of each string, in order.
RECURSIVE dedupe(_, _)
dedupe(list, kept) ==
    IF list = <<>> THEN kept
    ELSE IF \E i \in 1..Len(kept) : kept[i] = Head(list)
         THEN dedupe(Tail(list), kept)
         ELSE dedupe(Tail(list), Append(kept, Head(list)))

\* A variant that keeps every occurrence.
arrayKeepingAll(list) == list

arrayFromSet(list) == dedupe(list, <<>>)

\* --------------------------------------------- inputs of a scan invocation

\* JSON.parse of the searchCriteria text: a text is either ill-formed or
\* stands for a document.
IllFormed == [wellFormed |-> FALSE, empty |-> FALSE, document |-> Null]
Text(document) == [wellFormed |-> TRUE, empty |-> FALSE, document |-> document]
EmptyText == [wellFormed |-> FALSE, empty |-> TRUE, document |-> Null]

JSONparse(raw) == IF raw.wellFormed THEN Returned(raw.document) ELSE Thrown("SyntaxError")

\* The criteria texts of the model, by name.
Criteria ==
    [unseen |-> Text(Arr(<<Str("UNSEEN")>>)),
     nested |-> Text(Arr(<<Str("seen"), Arr(<<Null, Str("FROM"), Arr(<<Str("alice")>>)>>),
                          Str("LARGER"), Num(5)>>)),
     emptyArray |-> Text(Arr(<<Arr(<<>>), Null>>)),
     object |-> Text(Obj([from |-> Str("alice"), seen |-> Bool(FALSE)])),
     emptyObject |-> Text(Obj(EmptyObject)),
     invalidJson |-> IllFormed,
     nestedObject |-> Text(Arr(<<Str("SEEN"), Arr(<<Obj([seen |-> Bool(TRUE)])>>)>>)),
     missingArgument |-> Text(Arr(<<Str("SEEN"), Str("SUBJECT")>>)),
     unsupported |-> Text(Arr(<<Str("SEEN"), Str("bogus")>>)),
     primitive |-> Text(Num(5)),
     jsonNull |-> Text(Null),
     empty |-> EmptyText]

ValidCriteria == {"unseen", "nested", "emptyArray", "object", "emptyObject"}
InvalidCriteria == (DOMAIN Criteria) \ ValidCriteria

\* The options collection: a function from the option names that are set to
\* their values.
OptionValues ==
    [stopAfterFirst |-> {Bool(FALSE)},
     maxResults |-> {Num(n) : n \in 0..MaxMaxResults},
     progressEvery |-> {Num(2)},
     includeRawMessage |-> {Bool(TRUE)},
     includeRawHeaders |-> {Bool(TRUE)},
     caseInsensitive |-> {Bool(FALSE)}]

\* Every options collection over the names in keys.
OptionsOver(keys) ==
    UNION {[ks -> UNION {OptionValues[k] : k \in ks}] : ks \in SUBSET keys}

Has(options, k) == k \in DOMAIN options

WellTyped(options) == \A k \in DOMAIN options : options[k] \in OptionValues[k]

DefaultOptions == EmptyObject

\* The parameter sets of one input item: every criteria text and pattern
\* with a mailbox and the default options; the default criteria with every
\* options collection that sets maxResults and bears on the scan loop,
\* progress being logged only where maxResults is 0 or 1, and always where
\* the loop has no early exit, and the raw message being fetched only where
\* the loop ends with its first or second match and no progress is logged;
\* and the options that bear on the entry alone.
Item(mailbox, criteria, pattern, options) ==
    [mailbox |-> mailbox, searchCriteria |-> criteria, encodingPattern |-> pattern,
     options |-> options]

LoopOptions ==
    {o \in OptionsOver({"stopAfterFirst", "maxResults", "progressEvery", "includeRawMessage"}) :
        /\ WellTyped(o)
        /\ Has(o, "maxResults")
        /\ Has(o, "progressEvery") => o["maxResults"].v <= 1
        /\ (Has(o, "stopAfterFirst") /\ o["maxResults"].v = 0) => Has(o, "progressEvery")
        /\ Has(o, "includeRawMessage") =>
              /\ ~Has(o, "progressEvery")
              /\ ~Has(o, "stopAfterFirst") \/ o["maxResults"].v \in {1, 2}}

EntryOptions ==
    {o \in OptionsOver({"includeRawHeaders", "caseInsensitive"}) : WellTyped(o)}

Items ==
    {Item(m, c, p, DefaultOptions) :
        m \in {"INBOX", ""}, c \in DOMAIN Criteria,
        p \in {DefaultPattern, Base64Pattern, BrokenPattern, ""}}
    \cup {Item("INBOX", "unseen", DefaultPattern, o) : o \in LoopOptions}
    \cup {Item("INBOX", "object", Base64Pattern, o) : o \in EntryOptions}

\* The option constants execute derives from the collection.
caseInsensitiveOf(options) == ~(Has(options, "caseInsensitive") /\ options["caseInsensitive"] = Bool(FALSE))
includeRawHeadersOf(options) == Has(options, "includeRawHeaders") /\ options["includeRawHeaders"] = Bool(TRUE)
stopAfterFirstOf(options) == ~(Has(options, "stopAfterFirst") /\ options["stopAfterFirst"] = Bool(FALSE))
\* A variant that fetches the raw message of every match, flag or no flag.
includeRawMessageAlways(options) == TRUE

includeRawMessageOf(options) == Has(options, "includeRawMessage") /\ options["includeRawMessage"] = Bool(TRUE)

positiveNumberOf(options, k) ==
    IF Has(options, k) /\ options[k].t = "num" /\ options[k].v > 0 THEN options[k].v ELSE 0

maxResultsOf(options) == positiveNumberOf(options, "maxResults")
progressEveryOf(options) == positiveNumberOf(options, "progressEvery")


\* ------------------------------------------------- the external collaborator

\* What getCredentials('imap') can return: null, or a credential record.
CredentialSamples ==
    {Undefined,
     Some([host |-> "imap.example.com", user |-> "u", password |-> "p", port |-> Undefined]),
     Some([host |-> "", user |-> "u", password |-> "p", port |-> Undefined]),
     Some([host |-> "imap.example.com", user |-> "u", password |-> "p", port |-> Some(0)])}

\* Identifier lists the search can return, in the server's order.
UidPool == <<4, 2, 5, 1, 3, 6, 8, 7, 9>>

SearchResults == {SubSeq(UidPool, 1, n) : n \in 0..MaxCandidates}

\* Part trees, header blocks and envelopes of the messages of the model.
Node(type, part, disposition, encoding, childNodes) ==
    [type |-> type, part |-> part, disposition |-> disposition, encoding |-> encoding,
     childNodes |-> childNodes]

PlainTree == Node("text/plain", "", "", <<"7bit">>, <<>>)

SuspectTree ==
    Node("multipart/mixed", "", "", <<>>,
         <<Node("text/plain", "1", "", <<"8bit", " ", "\t", "+">>, <<>>),
           Node("application/pdf", "2", "attachment", <<"base64">>, <<>>)>>)

PlainHeaders == <<<<"Subject:", " ", "hello">>, <<"Content-Transfer-Encoding:", " ", "7bit">>>>

SuspectHeaders ==
    <<<<"content-transfer-encoding:">>, <<"\t", "8bit", "+", " ">>,
      <<"Message-Id:", " ", "<h@x>">>, <<"Content-Transfer-Encoding:", " ", "Base64">>,
      <<"Content-Transfer-Encoding:", " ", "AMAZONSES">>,
      <<"CONTENT-TRANSFER-ENCODING:", "8bit", "+">>>>

Envelope(subject, messageId) ==
    [subject |-> subject, date |-> "2024-01-01T00:00:00.000Z", from |-> <<"a@x">>,
     messageId |-> messageId]

\* What fetchOne returns for the structural query, but for the uid: a
\* message without anomaly, one whose part tree matches, one without part
\* tree whose headers match, with and without envelope.
MessageSamples ==
    {[envelope |-> Some(Envelope("hi", <<"<e@x>">>)), bodyStructure |-> Some(PlainTree),
      headers |-> Some(PlainHeaders)],
     [envelope |-> Some(Envelope("", <<>>)), bodyStructure |-> Some(SuspectTree),
      headers |-> Some(SuspectHeaders)],
     [envelope |-> Undefined, bodyStructure |-> Undefined, headers |-> Some(SuspectHeaders)]}

\* Two more messages, which the first uid of the pool can have: one whose
\* part tree matches, with an identifier in its envelope and another in its
\* headers, and one whose part tree matches, with no identifier in its
\* envelope and no header buffer.
IdentifierSamples ==
    {[envelope |-> Some(Envelope("hi", <<"<e@x>">>)), bodyStructure |-> Some(SuspectTree),
      headers |-> Some(SuspectHeaders)],
     [envelope |-> Some(Envelope("", <<>>)), bodyStructure |-> Some(SuspectTree),
      headers |-> Undefined]}

WithUid(sample, uid) ==
    [uid |-> uid, envelope |-> sample.envelope, bodyStructure |-> sample.bodyStructure,
     headers |-> sample.headers]

\* fetchOne(uid, fetchQuery, {uid: true}) resolves to false for a message
\* that does not exist, else to the message with that uid; uid 0 stands for
\* a response without uid.
FetchResponses(uid) ==
    {Undefined} \cup {Some(WithUid(m, u)) : m \in MessageSamples, u \in {uid}}
    \cup {Some(WithUid(m, 0)) : m \in {CHOOSE x \in MessageSamples : x.envelope = Undefined}}
    \cup {Some(WithUid(m, u)) : m \in IdentifierSamples, u \in {uid} \cap {UidPool[1]}}

\* fetchOne(uid, {source: true, size: true}): false, a message without
\* source, or a message whose source has the given length.
SourceResponses == {Undefined, Some([source |-> Undefined]), Some([source |-> Some(3)])}


\* ------------------------------------------------ ImapEncodingScan.execute

VARIABLES
    input,           \* the parameters of the input item
    pc,              \* the await execute is suspended at, or "done" / "failed"
    searchQuery,     \* the compiled predicate, once validation has passed
    encodingRegex,   \* the compiled pattern, once validation has passed
    client,          \* whether new ImapFlow(...) has run
    connected,
    calls,           \* the external calls made so far, in order
    searchResult,
    totalCandidates,
    idx,
    scanned,
    matches,
    entry,           \* the record being built while the raw message is fetched
    logs,            \* the progress messages written
    returnData,
    pending,         \* the error the try block threw, in flight during finally
    thrown,          \* the error execute rejected with
    visited          \* the structural fetches answered so far: the uid asked for,
                     \* the response, the provenance strings found in it

scanVars ==
    <<input, pc, searchQuery, encodingRegex, client, connected, calls, searchResult,
      totalCandidates, idx, scanned, matches, entry, logs, returnData, pending, thrown,
      visited>>

\* The state of ImapMove.execute (Message-ID version).
VARIABLES
    moveItems,        \* the parameters of the input items
    continueOnFail,   \* the node's continue-on-fail setting
    moveIndex,        \* i: index of the item being processed
    movePc,           \* the await execute is suspended at, or "done" / "failed"
    moveClient,       \* whether client has been assigned
    moveConnected,
    normalizedMessageId,
    shouldContinue,
    errorOutput,
    successOutput,
    moveCalls,        \* the external calls made so far, in order
    moveReturnData,
    movePending,      \* the error the catch block rethrew, in flight during finally
    moveThrown,       \* the error execute rejected with
    moveSearchResult,
    movedOnServer     \* indexes of the items whose messageMove succeeded

moveVars ==
    <<moveItems, continueOnFail, moveIndex, movePc, moveClient, moveConnected, normalizedMessageId,
      shouldContinue, errorOutput, successOutput, moveCalls, moveReturnData, movePending,
      moveThrown, moveSearchResult, movedOnServer>>

\* The state of one criteria compilation (lines 414-435 with
\* flattenSearchTokens and tokensToSearchObject run one loop iteration at a
\* time).
VARIABLES
    criteriaInput,    \* the parsed JSON document (searchCriteriaInput)
    compilerPc,       \* "start", "loop", "returned", "thrown", or "idle"
    compilerTokens,   \* the tokens array of tokensToSearchObject, still to shift
    compilerSearch,   \* the search object built so far
    compilerResult,   \* Undefined, or the predicate returned or the error thrown
    shifted           \* history: the tokens shifted so far, each with its use

compilerVars ==
    <<criteriaInput, compilerPc, compilerTokens, compilerSearch, compilerResult, shifted>>

\* The state of one part-tree pass (collectEncodingMatches run one loop
\* iteration at a time).
VARIABLES
    matcherStructure, \* the optional root node the pass is given
    matcherRegex,     \* the compiled pattern
    matcherPc,        \* "start", "loop", "returned", or "idle"
    matcherStack,     \* the stack array
    matcherMatches,   \* the matches array
    shiftedNodes      \* history: the nodes shifted off the stack so far

matcherVars ==
    <<matcherStructure, matcherRegex, matcherPc, matcherStack, matcherMatches, shiftedNodes>>

\* The state of ImapGetMessage.execute.
VARIABLES
    getItems,         \* the parameters of the input items
    getIndex,         \* i: index of the item being processed
    getPc,            \* the await execute is suspended at, or "done" / "failed"
    getConnected,
    getNormalizedMessageId,
    getCalls,         \* the external calls made so far, in order
    getSearchResult,
    getReturnData,
    getPending,       \* the error the try block threw, in flight during finally
    getThrown         \* the error execute rejected with

getVars ==
    <<getItems, getIndex, getPc, getConnected, getNormalizedMessageId, getCalls,
      getSearchResult, getReturnData, getPending, getThrown>>

\* The state of ImapMove.execute in its UID versions.
VARIABLES
    uidVersion,       \* which of the three executes runs
    uidItems,         \* the uid parameter of the input items
    uidIndex,         \* i: index of the item being processed
    uidPc,            \* the step execute is at, or "done" / "failed"
    uidConnected,
    uidCalls,         \* the external calls made so far, in order
    uidReturnData,
    uidPending,       \* the error the try block threw, in flight during finally
    uidThrown         \* the error execute rejected with

uidVars ==
    <<uidVersion, uidItems, uidIndex, uidPc, uidConnected, uidCalls, uidReturnData,
      uidPending, uidThrown>>

\* What each component leaves alone: the state of the others.
exceptScan == <<moveVars, compilerVars, matcherVars, getVars, uidVars>>
exceptMove == <<scanVars, compilerVars, matcherVars, getVars, uidVars>>
exceptCompiler == <<scanVars, moveVars, matcherVars, getVars, uidVars>>
exceptMatcher == <<scanVars, moveVars, compilerVars, getVars, uidVars>>
exceptGet == <<scanVars, moveVars, compilerVars, matcherVars, uidVars>>
exceptUid == <<scanVars, moveVars, compilerVars, matcherVars, getVars>>

Error(stage, message) == [stage |-> stage, message |-> message]

\* The criteria document to a predicate: the array and object branches.
buildSearchQuery(document) ==
    IF document.t = "arr"
    THEN LET tokens == flattenSearchTokens(document)
         IN  IF ~tokens.ok THEN Thrown(Error("criteria", tokens.error))
             ELSE LET compiled == tokensToSearchObject(tokens.value)
                  IN  IF compiled.ok THEN compiled
                      ELSE Thrown(Error("criteria", compiled.error))
    ELSE IF document.t = "obj"
    THEN Returned(searchOrAll(document.v))
    ELSE Thrown(Error("criteria",
             <<"Search criteria JSON must describe either an array of IMAP tokens or an object.">>))

\* new RegExp(encodingPattern, caseInsensitive ? 'i' : undefined)
newRegExp(source, ignoreCase) ==
    IF RegExpCompiles(source) THEN Returned([source |-> source, ignoreCase |-> ignoreCase])
    ELSE Thrown(Error("pattern", <<"Invalid regex pattern: ", source>>))

\* The synchronous checks of execute before the credential lookup, in the
\* order the code makes them.
validate(item) ==
    LET raw == Criteria[item.searchCriteria]
        parsed == JSONparse(raw)
        query == buildSearchQuery(parsed.value)
        regex == newRegExp(item.encodingPattern, caseInsensitiveOf(item.options))
    IN  IF item.mailbox = "" THEN Thrown(Error("mailbox", <<"Mailbox must be provided.">>))
        ELSE IF raw.empty
        THEN Thrown(Error("criteria", <<"Search criteria must not be empty.">>))
        ELSE IF item.encodingPattern = ""
        THEN Thrown(Error("pattern", <<"Encoding regex pattern is required.">>))
        ELSE IF ~parsed.ok
        THEN Thrown(Error("criteria", <<"Search criteria must be valid JSON.">>))
        ELSE IF ~query.ok THEN query
        ELSE IF ~regex.ok THEN regex
        ELSE Returned([searchQuery |-> query.value, encodingRegex |-> regex.value])

\* The checks on the credential record.
credentialsError(credentials) ==
    IF credentials = Undefined THEN Some("IMAP credentials are required but missing.")
    ELSE LET c == credentials[1]
             port == IF c.port # Undefined THEN c.port[1] ELSE 993
         IN  IF c.host = "" \/ c.user = "" \/ c.password = ""
             THEN Some("IMAP credentials must include host, user, and password.")
             ELSE IF port <= 0 THEN Some("IMAP credential port must be a positive number.")
             ELSE Undefined

Call(op, arg) == [op |-> op, arg |-> arg]

ScanInit ==
    /\ input \in Items
    /\ pc = "start"
    /\ searchQuery = Undefined
    /\ encodingRegex = Undefined
    /\ client = FALSE
    /\ connected = FALSE
    /\ calls = <<>>
    /\ searchResult = Undefined
    /\ totalCandidates = 0
    /\ idx = 0
    /\ scanned = 0
    /\ matches = <<>>
    /\ entry = Undefined
    /\ logs = <<>>
    /\ returnData = <<>>
    /\ pending = Undefined
    /\ thrown = Undefined
    /\ visited = <<>>

\* Lines 378-463: parameter checks, criteria compilation, pattern compilation.
Validate ==
    /\ pc = "start"
    /\ LET v == validate(input)
       IN  IF v.ok
           THEN /\ searchQuery' = Some(v.value.searchQuery)
                /\ encodingRegex' = Some(v.value.encodingRegex)
                /\ pc' = "getCredentials"
                /\ UNCHANGED thrown
           ELSE /\ thrown' = Some(v.error)
                /\ pc' = "failed"
                /\ UNCHANGED <<searchQuery, encodingRegex>>
    /\ UNCHANGED <<input, client, connected, calls, searchResult, totalCandidates, idx,
                   scanned, matches, entry, logs, returnData, pending, visited>>
    /\ UNCHANGED exceptScan

\* Lines 465-512: the credential lookup resolves; the client is constructed.
GetCredentials ==
    /\ pc = "getCredentials"
    /\ \E credentials \in CredentialSamples :
          LET e == credentialsError(credentials)
          IN  /\ calls' = Append(calls, Call("getCredentials", "imap"))
              /\ IF e = Undefined
                 THEN /\ client' = TRUE
                      /\ pc' = "connect"
                      /\ UNCHANGED thrown
                 ELSE /\ thrown' = Some(Error("credentials", <<e[1]>>))
                      /\ pc' = "failed"
                      /\ UNCHANGED client
    /\ UNCHANGED <<input, searchQuery, encodingRegex, connected, searchResult,
                   totalCandidates, idx, scanned, matches, entry, logs, returnData,
                   pending, visited>>
    /\ UNCHANGED exceptScan

\* A variant in which a rejected await leaves execute at once, as it would
\* without the finally block.
RejectWithoutFinally(call, stage) ==
    /\ calls' = Append(calls, call)
    /\ pending' = Some(Error(stage, <<stage, " failed">>))
    /\ pc' = "failed"

\* A rejected await inside the try block: control passes to the finally
\* block with the error in flight.
\* A variant in which a rejected call is made a second time before the
\* failure is taken.
RejectAfterRetry(call, stage) ==
    /\ calls' = calls \o <<call, call>>
    /\ pending' = Some(Error(stage, <<stage, " failed">>))
    /\ pc' = "teardown"

Reject(call, stage) ==
    /\ calls' = Append(calls, call)
    /\ pending' = Some(Error(stage, <<stage, " failed">>))
    /\ pc' = "teardown"

\* A variant in which the search follows the connection at once.
ConnectWithoutOpen ==
    /\ pc = "connect"
    /\ \/ /\ calls' = Append(calls, Call("connect", ""))
          /\ connected' = TRUE
          /\ pc' = "search"
          /\ UNCHANGED pending
       \/ /\ Reject(Call("connect", ""), "connect")
          /\ UNCHANGED connected
    /\ UNCHANGED <<input, searchQuery, encodingRegex, client, searchResult, totalCandidates,
                   idx, scanned, matches, entry, logs, returnData, thrown, visited>>
    /\ UNCHANGED exceptScan

\* Lines 516-517: client.connect() settles.
Connect ==
    /\ pc = "connect"
    /\ \/ /\ calls' = Append(calls, Call("connect", ""))
          /\ connected' = TRUE
          /\ pc' = "mailboxOpen"
          /\ UNCHANGED pending
       \/ /\ Reject(Call("connect", ""), "connect")
          /\ UNCHANGED connected
    /\ UNCHANGED <<input, searchQuery, encodingRegex, client, searchResult, totalCandidates,
                   idx, scanned, matches, entry, logs, returnData, thrown, visited>>
    /\ UNCHANGED exceptScan

\* Line 519: client.mailboxOpen(mailbox, { readOnly: true }) settles.
MailboxOpen ==
    /\ pc = "mailboxOpen"
    /\ LET call == Call("mailboxOpen", [mailbox |-> input.mailbox, readOnly |-> TRUE])
       IN  \/ /\ calls' = Append(calls, call)
              /\ pc' = "search"
              /\ UNCHANGED pending
           \/ Reject(call, "mailboxOpen")
    /\ UNCHANGED <<input, searchQuery, encodingRegex, client, connected, searchResult,
                   totalCandidates, idx, scanned, matches, entry, logs, returnData, thrown,
                   visited>>
    /\ UNCHANGED exceptScan


\* A variant of the summary whose candidate total is the number visited.
SummaryOfVisited(found, total, count) ==
    [matches |-> Len(found), totalCandidates |-> count, scanned |-> count,
     matchDetails |-> found]

\* The summary record and the output item that carries it.
Summary(found, total, count) ==
    [matches |-> Len(found), totalCandidates |-> total, scanned |-> count,
     matchDetails |-> found]

OutputItem(json) == [json |-> json, pairedItem |-> 0]

\* Line 524: the search gave no candidate.
noCandidates(result) == result = Undefined \/ Len(result[1]) = 0

\* A variant in which the item without candidates pushes nothing.
noCandidatesSilent(total) == <<>>

\* Lines 525-534: what the item without candidates pushes to returnData.
noCandidatesOutput(total) == <<OutputItem(Summary(<<>>, total, 0))>>

\* Lines 521-536: client.search(searchQuery, { uid: true }) settles; without
\* candidates the summary is pushed and the item is finished.
Search ==
    /\ pc = "search"
    /\ LET call == Call("search", searchQuery[1])
       IN  \/ \E result \in {Undefined} \cup {Some(r) : r \in SearchResults} :
                 LET total == IF result # Undefined THEN Len(result[1]) ELSE 0
                 IN  /\ calls' = Append(calls, call)
                     /\ searchResult' = result
                     /\ totalCandidates' = total
                     /\ IF noCandidates(result)
                        THEN /\ returnData' = returnData \o noCandidatesOutput(total)
                             /\ pc' = "teardown"
                        ELSE /\ pc' = "fetchOne"
                             /\ UNCHANGED returnData
                     /\ UNCHANGED pending
           \/ /\ Reject(call, "search")
              /\ UNCHANGED <<searchResult, totalCandidates, returnData>>
    /\ UNCHANGED <<input, searchQuery, encodingRegex, client, connected, idx, scanned,
                   matches, entry, logs, thrown, visited>>
    /\ UNCHANGED exceptScan

\* Lines 557-568: the part-tree pass, then the header pass when the message
\* has headers and the tree pass found nothing.
\* A variant in which the header pass runs whatever the part-tree pass found.
suspectDetailsBothPasses(message, regex) ==
    LET tree == collectEncodingMatches(message.bodyStructure, regex)
    IN  IF message.headers # Undefined
        THEN tree \o collectHeaderEncodingMatches(message.headers[1], regex)
        ELSE tree

suspectDetailsOf(message, regex) ==
    LET tree == collectEncodingMatches(message.bodyStructure, regex)
    IN  IF message.headers # Undefined /\ Len(tree) = 0
        THEN tree \o collectHeaderEncodingMatches(message.headers[1], regex)
        ELSE tree

\* Lines 583-606: the entry before the optional raw-message fetch.
baseEntry(message, suspectDetails, includeRawHeaders) ==
    LET envelope == message.envelope
        e0 == [imapUid |-> NumText[message.uid], matchSources |-> arrayFromSet(suspectDetails)]
        e1 == IF envelope # Undefined /\ envelope[1].subject # ""
              THEN Put(e0, "subject", envelope[1].subject) ELSE e0
        e2 == IF envelope # Undefined /\ envelope[1].date # ""
              THEN Put(e1, "date", envelope[1].date) ELSE e1
        e3 == IF envelope # Undefined /\ Len(envelope[1].from) > 0
              THEN Put(e2, "from", envelope[1].from) ELSE e2
    IN  IF includeRawHeaders /\ message.headers # Undefined /\ message.headers[1] # <<>>
        THEN Put(e3, "rawHeaders", message.headers[1]) ELSE e3

\* Lines 614-620: the raw message attached to the entry, or the note that
\* there was none.
withRawMessage(e, rawMessage) ==
    IF rawMessage # Undefined /\ rawMessage[1].source # Undefined
    THEN Put(Put(Put(e, "rawMessage", "base64 text"), "rawMessageEncoding", "base64"),
             "rawMessageBytes", rawMessage[1].source[1])
    ELSE Put(e, "rawMessageError", "Raw message was not available for this UID.")

\* A variant that sets the field even when no identifier was found.
withMessageIdAlways(e, message) ==
    LET messageId == extractMessageId(message.envelope, message.headers)
    IN  Put(e, "messageId", IF messageId # Undefined THEN messageId[1] ELSE <<>>)

\* Lines 623-626
withMessageId(e, message) ==
    LET messageId == extractMessageId(message.envelope, message.headers)
    IN  IF messageId # Undefined /\ messageId[1] # <<>>
        THEN Put(e, "messageId", messageId[1]) ELSE e

\* Lines 571-572 and 630-631: the progress message, when one is due.
progressLogs(progressEvery, count, total, found) ==
    IF progressEvery # 0 /\ count % progressEvery = 0
    THEN <<[scanned |-> count, totalCandidates |-> total, matches |-> Len(found)]>>
    ELSE <<>>

\* Variants of the loop exit: one that ignores the stop-after-first flag, one
\* that leaves only once the limit is exceeded, one that applies the limit
\* even when it is 0.
shouldBreakIgnoringFlag(stopAfterFirst, maxResults, found) ==
    maxResults # 0 /\ Len(found) >= maxResults

shouldBreakPastLimit(stopAfterFirst, maxResults, found) ==
    stopAfterFirst \/ (maxResults # 0 /\ Len(found) > maxResults)

shouldBreakAtZeroLimit(stopAfterFirst, maxResults, found) ==
    stopAfterFirst \/ Len(found) >= maxResults

\* Line 640: whether the loop is left after a match has been pushed.
shouldBreak(stopAfterFirst, maxResults, found) ==
    stopAfterFirst \/ (maxResults # 0 /\ Len(found) >= maxResults)

\* A variant of the loop head that walks the list from its end.
candidateFromEnd(result, i) == result[Len(result) - i]

\* Line 549: the candidate the next fetch is for.
candidateAt(result, i) == result[i + 1]

\* A variant of the loop end that leaves the loop after every candidate.
EndIterationAlwaysLeaving(leave, found, count) ==
    /\ returnData' = Append(returnData, OutputItem(Summary(found, totalCandidates, count)))
    /\ pc' = "teardown"
    /\ idx' = idx

\* A variant of the loop end that pushes no summary once every candidate has
\* been visited without a break.
EndIterationWithoutSummary(leave, found, count) ==
    IF leave \/ idx + 1 >= Len(searchResult[1])
    THEN /\ returnData' = IF leave
                          THEN Append(returnData,
                                   OutputItem(Summary(found, totalCandidates, count)))
                          ELSE returnData
         /\ pc' = "teardown"
         /\ idx' = IF leave THEN idx ELSE idx + 1
    ELSE /\ idx' = idx + 1
         /\ pc' = "fetchOne"
         /\ UNCHANGED returnData

\* The end of one loop iteration: the next candidate is fetched, or, after a
\* break or the last candidate, the summary is pushed (lines 645-654) and
\* the finally block is entered.
EndIteration(leave, found, count) ==
    IF leave \/ idx + 1 >= Len(searchResult[1])
    THEN /\ returnData' = Append(returnData,
                              OutputItem(Summary(found, totalCandidates, count)))
         /\ pc' = "teardown"
         /\ idx' = IF leave THEN idx ELSE idx + 1
    ELSE /\ idx' = idx + 1
         /\ pc' = "fetchOne"
         /\ UNCHANGED returnData

\* A variant in which the loop goes on before the record has been pushed.
CompleteEntryLate(e, message, count) ==
    /\ UNCHANGED matches
    /\ logs' = logs \o progressLogs(progressEveryOf(input.options), count,
                                    totalCandidates, matches)
    /\ EndIteration(FALSE, matches, count)

\* A variant that keeps the newest record alone in the match list.
CompleteEntryReplacing(e, message, count) ==
    LET found == <<withMessageId(e, message)>>
    IN  /\ matches' = found
        /\ logs' = logs \o progressLogs(progressEveryOf(input.options), count,
                                        totalCandidates, found)
        /\ EndIteration(shouldBreak(stopAfterFirstOf(input.options),
                                    maxResultsOf(input.options), found),
                        found, count)

\* Lines 623-642: message id, push, progress, early exit.
CompleteEntry(e, message, count) ==
    LET found == Append(matches, withMessageId(e, message))
    IN  /\ matches' = found
        /\ logs' = logs \o progressLogs(progressEveryOf(input.options), count,
                                        totalCandidates, found)
        /\ EndIteration(shouldBreak(stopAfterFirstOf(input.options),
                                    maxResultsOf(input.options), found),
                        found, count)


StructuralQuery == "uid envelope bodyStructure headers"
SourceQuery == "source size"

\* Lines 549-621: client.fetchOne(uid, fetchQuery) settles for the candidate
\* at idx; the message is inspected up to the next await.
FetchOne ==
    /\ pc = "fetchOne"
    /\ LET uid == candidateAt(searchResult[1], idx)
           call == Call("fetchOne", [uid |-> NumText[uid], query |-> StructuralQuery])
           regex == encodingRegex[1]
       IN  \/ \E response \in FetchResponses(uid) :
                 LET count == scanned + 1
                     message == response[1]
                     inspected == response # Undefined /\ message.uid # 0
                     suspectDetails == IF inspected THEN suspectDetailsOf(message, regex)
                                       ELSE <<>>
                 IN  /\ calls' = Append(calls, call)
                     /\ visited' = Append(visited, [uid |-> uid, response |-> response,
                                                    suspectDetails |-> suspectDetails])
                     /\ scanned' = count
                     /\ UNCHANGED pending
                     /\ IF ~inspected
                        THEN /\ EndIteration(FALSE, matches, count)
                             /\ UNCHANGED <<matches, logs, entry>>
                        ELSE IF Len(suspectDetails) = 0
                        THEN /\ logs' = logs \o progressLogs(progressEveryOf(input.options),
                                                  count, totalCandidates, matches)
                             /\ EndIteration(FALSE, matches, count)
                             /\ UNCHANGED <<matches, entry>>
                        ELSE LET e == baseEntry(message, suspectDetails,
                                                includeRawHeadersOf(input.options))
                             IN  IF includeRawMessageOf(input.options)
                                 THEN /\ entry' = Some(e)
                                      /\ pc' = "fetchSource"
                                      /\ UNCHANGED <<matches, logs, idx, returnData>>
                                 ELSE /\ CompleteEntry(e, message, count)
                                      /\ UNCHANGED entry
           \/ /\ Reject(call, "fetchOne")
              /\ UNCHANGED <<visited, scanned, matches, logs, entry, idx, returnData>>
    /\ UNCHANGED <<input, searchQuery, encodingRegex, client, connected, searchResult,
                   totalCandidates, thrown>>
    /\ UNCHANGED exceptScan

\* Lines 609-642: the raw-message fetch for a matching candidate settles and
\* the iteration is completed.
FetchSource ==
    /\ pc = "fetchSource"
    /\ LET uid == candidateAt(searchResult[1], idx)
           call == Call("fetchOne", [uid |-> NumText[uid], query |-> SourceQuery])
           message == visited[Len(visited)].response[1]
       IN  \/ /\ Reject(call, "fetchSource")
              /\ UNCHANGED <<matches, logs, entry, idx, returnData>>
           \/ \E rawMessage \in SourceResponses :
                 /\ calls' = Append(calls, call)
                 /\ CompleteEntry(withRawMessage(entry[1], rawMessage), message, scanned)
                 /\ entry' = Undefined
                 /\ UNCHANGED pending
    /\ UNCHANGED <<input, searchQuery, encodingRegex, client, connected, searchResult,
                   totalCandidates, scanned, thrown, visited>>
    /\ UNCHANGED exceptScan

\* Lines 656-660: the call the finally block makes.
teardownCall(isConnected) == IF isConnected THEN "logout" ELSE "close"

\* What execute rejects with once the finally block has run: an error thrown
\* by the finally block replaces the one in flight.
rejection(inFlight, teardownError) ==
    IF teardownError # Undefined THEN teardownError ELSE inFlight

\* Lines 655-662: the finally block's call settles; execute returns, or
\* rejects with the error in flight or with the teardown's own error.
Teardown ==
    /\ pc = "teardown"
    /\ calls' = Append(calls, Call(teardownCall(connected), ""))
    /\ \E teardownError \in
            {Undefined, Some(Error("teardown", <<teardownCall(connected), " failed">>))} :
          LET r == rejection(pending, teardownError)
          IN  /\ thrown' = r
              /\ pc' = IF r = Undefined THEN "done" ELSE "failed"
    /\ UNCHANGED <<input, searchQuery, encodingRegex, client, connected, searchResult,
                   totalCandidates, idx, scanned, matches, entry, logs, returnData,
                   pending, visited>>
    /\ UNCHANGED exceptScan

ScanNext ==
    \/ Validate
    \/ GetCredentials
    \/ Connect
    \/ MailboxOpen
    \/ Search
    \/ FetchOne
    \/ FetchSource
    \/ Teardown

\* ----------------------------------- ImapMove.execute (Message-ID version)

\* Largest number of input items of one execute in the model.
MaxMoveItems == 2

\* A Message-ID is a sequence of characters.
\* rawMessageId.startsWith('<') && rawMessageId.endsWith('>')
isBracketed(id) == Len(id) > 0 /\ Head(id) = "<" /\ id[Len(id)] = ">"

\* rawMessageId.replace(/^<|>$/g, ''): one leading '<' and one trailing '>'
\* are removed.
stripBrackets(id) ==
    LET a == IF Len(id) > 0 /\ Head(id) = "<" THEN Tail(id) ELSE id
    IN  IF Len(a) > 0 /\ a[Len(a)] = ">" THEN SubSeq(a, 1, Len(a) - 1) ELSE a

\* A variant of the normalization that wraps every input in brackets.
normalizeMessageIdWrapping(rawMessageId) == <<"<">> \o rawMessageId \o <<">">>

\* Lines 240-242
normalizeMessageId(rawMessageId) ==
    IF isBracketed(rawMessageId) THEN rawMessageId
    ELSE <<"<">> \o stripBrackets(rawMessageId) \o <<">">>

\* Longest Message-ID parameter, in characters, of the model.
MaxIdLength == 3

\* The characters of a Message-ID parameter: the two brackets, a letter, a
\* blank.
IdCharacters == {"<", ">", "a", " "}

MessageIds == UNION {[1..n -> IdCharacters] : n \in 0..MaxIdLength}

MoveParameters ==
    {[messageId |-> id, sourceMailbox |-> src, mailbox |-> "Spam"] :
        id \in {<<>>, <<"a">>, <<"<", "a", ">">>}, src \in {"INBOX", ""}}

MoveSearchResults == {Undefined} \cup {Some(r) : r \in {x \in SearchResults : Len(x) <= 2}}

\* The checks of lines 193-238, in the order the code makes them.
moveValidationError(credentials, item) ==
    IF credentials = Undefined THEN Some("IMAP credentials are required but missing.")
    ELSE LET c == credentials[1]
             port == IF c.port # Undefined THEN c.port[1] ELSE 993
         IN  IF item.messageId = <<>> THEN Some("Message ID must be provided.")
             ELSE IF item.sourceMailbox = "" THEN Some("Source mailbox is required.")
             ELSE IF item.mailbox = "" THEN Some("Target mailbox is required.")
             ELSE IF port <= 0 THEN Some("IMAP credential port must be a positive number.")
             ELSE IF c.host = "" \/ c.user = "" \/ c.password = ""
             THEN Some("IMAP credentials must include host, user, and password.")
             ELSE Undefined

\* The output item of a failed item (lines 303-310, 339-346, 359-365).
failureOutput(item, normalized, message) ==
    [messageId |-> item.messageId, normalizedMessageId |-> normalized, moved |-> FALSE,
     sourceMailbox |-> item.sourceMailbox, targetMailbox |-> item.mailbox,
     error |-> message]

\* Lines 333-347: the close error joined to the output of an earlier error.
withCloseError(item, normalized, output, closeErrorMessage) ==
    IF output # Undefined
    THEN Some([output[1] EXCEPT !.error = IF @ # <<>> THEN @ \o <<"; ">> \o closeErrorMessage
                                            ELSE closeErrorMessage])
    ELSE Some(failureOutput(item, normalized, closeErrorMessage))

MoveItemStart ==
    /\ movePc' = "getCredentials"
    /\ moveClient' = FALSE
    /\ moveConnected' = FALSE
    /\ normalizedMessageId' = Undefined
    /\ shouldContinue' = FALSE
    /\ errorOutput' = Undefined
    /\ successOutput' = Undefined
    /\ movePending' = Undefined

MoveInit ==
    /\ moveItems \in UNION {[1..n -> MoveParameters] : n \in 1..MaxMoveItems}
    /\ continueOnFail \in BOOLEAN
    /\ moveIndex = 0
    /\ movePc = "getCredentials"
    /\ moveClient = FALSE
    /\ moveConnected = FALSE
    /\ normalizedMessageId = Undefined
    /\ shouldContinue = FALSE
    /\ errorOutput = Undefined
    /\ successOutput = Undefined
    /\ moveCalls = <<>>
    /\ moveReturnData = <<>>
    /\ movePending = Undefined
    /\ moveThrown = Undefined
    /\ moveSearchResult = Undefined
    /\ movedOnServer = {}

\* Lines 177-179: the parameters of the item in process, the Message-ID
\* trimmed.
moveItem == [moveItems[moveIndex + 1] EXCEPT !.messageId = trim(@)]

\* One input item whose Message-ID parameter is any of the model's.
MoveAnyIdInit ==
    /\ moveItems \in {<<[messageId |-> id, sourceMailbox |-> "INBOX", mailbox |-> "Spam"]>> :
                          id \in MessageIds}
    /\ continueOnFail \in BOOLEAN
    /\ moveIndex = 0
    /\ movePc = "getCredentials"
    /\ moveClient = FALSE
    /\ moveConnected = FALSE
    /\ normalizedMessageId = Undefined
    /\ shouldContinue = FALSE
    /\ errorOutput = Undefined
    /\ successOutput = Undefined
    /\ moveCalls = <<>>
    /\ moveReturnData = <<>>
    /\ movePending = Undefined
    /\ moveThrown = Undefined
    /\ moveSearchResult = Undefined
    /\ movedOnServer = {}

\* Lines 357-377 after the finally block: execute rejects with the error in
\* flight, or pushes the item's output and goes on to the next item.
AfterFinally(inFlight, rethrown, continue, failure, success) ==
    IF inFlight # Undefined
    THEN /\ moveThrown' = inFlight
         /\ movePc' = "failed"
         /\ UNCHANGED <<moveIndex, moveReturnData, moveClient, moveConnected,
                        normalizedMessageId>>
         /\ shouldContinue' = continue
         /\ errorOutput' = failure
         /\ successOutput' = success
         /\ movePending' = rethrown
    ELSE /\ moveReturnData' =
              IF continue
              THEN Append(moveReturnData,
                       [json |-> IF failure # Undefined THEN failure[1]
                                 ELSE [messageId |-> moveItem.messageId,
                                       normalizedMessageId |-> normalizedMessageId,
                                       moved |-> FALSE,
                                       sourceMailbox |-> moveItem.sourceMailbox,
                                       targetMailbox |-> moveItem.mailbox],
                        pairedItem |-> moveIndex])
              ELSE IF success # Undefined
              THEN Append(moveReturnData, [json |-> success[1], pairedItem |-> moveIndex])
              ELSE moveReturnData
         /\ moveIndex' = moveIndex + 1
         /\ UNCHANGED moveThrown
         /\ IF moveIndex + 1 < Len(moveItems)
            THEN MoveItemStart
            ELSE /\ movePc' = "done"
                 /\ shouldContinue' = continue
                 /\ errorOutput' = failure
                 /\ successOutput' = success
                 /\ movePending' = rethrown
                 /\ UNCHANGED <<moveClient, moveConnected, normalizedMessageId>>

\* A variant of the catch block without the continue-on-fail branch: the
\* error is rethrown whatever the setting.
MoveCatchRethrowing(stage, message) ==
    /\ movePc' = "teardown"
    /\ shouldContinue' = FALSE
    /\ errorOutput' = Undefined
    /\ movePending' = Some(Error(stage, <<message>>))

\* Lines 298-316 for an error thrown in the try block once the client
\* exists, up to the await of the finally block: with continue-on-fail the
\* error becomes the item's output, else it is rethrown and in flight while
\* the finally block runs.
MoveCatch(stage, message) ==
    /\ movePc' = "teardown"
    /\ shouldContinue' = continueOnFail
    /\ errorOutput' = IF continueOnFail
                      THEN Some(failureOutput(moveItem, normalizedMessageId,
                                              <<message>>))
                      ELSE Undefined
    /\ movePending' = IF continueOnFail THEN Undefined ELSE Some(Error(stage, <<message>>))

MoveCall(call) == moveCalls' = Append(moveCalls, call)

\* Lines 189-257: the credential lookup resolves, the parameters are checked,
\* the Message-ID is normalized and the client is constructed.
MoveGetCredentials ==
    /\ movePc = "getCredentials"
    /\ MoveCall(Call("getCredentials", "imap"))
    /\ \E credentials \in CredentialSamples :
          LET item == moveItem
              e == moveValidationError(credentials, item)
          IN  IF e # Undefined
              THEN AfterFinally(
                       IF continueOnFail THEN Undefined
                       ELSE Some(Error("parameters", <<e[1]>>)),
                       IF continueOnFail THEN Undefined
                       ELSE Some(Error("parameters", <<e[1]>>)),
                       continueOnFail,
                       IF continueOnFail
                       THEN Some(failureOutput(item, Undefined, <<e[1]>>))
                       ELSE Undefined,
                       Undefined)
              ELSE /\ normalizedMessageId' = Some(normalizeMessageId(item.messageId))
                   /\ moveClient' = TRUE
                   /\ movePc' = "connect"
                   /\ UNCHANGED <<moveIndex, moveConnected, shouldContinue, errorOutput,
                                  successOutput, moveReturnData, movePending, moveThrown>>
    /\ UNCHANGED <<moveItems, continueOnFail, moveSearchResult, movedOnServer>>
    /\ UNCHANGED exceptMove

\* Lines 257-258: client.connect() settles.
MoveConnect ==
    /\ movePc = "connect"
    /\ MoveCall(Call("connect", ""))
    /\ \/ /\ moveConnected' = TRUE
          /\ movePc' = "mailboxOpen"
          /\ UNCHANGED <<shouldContinue, errorOutput, movePending>>
       \/ /\ MoveCatch("connect", "connect failed")
          /\ UNCHANGED moveConnected
    /\ UNCHANGED <<moveItems, continueOnFail, moveIndex, moveClient, normalizedMessageId,
                   successOutput, moveReturnData, moveThrown, moveSearchResult,
                   movedOnServer>>
    /\ UNCHANGED exceptMove

\* Line 259: client.mailboxOpen(sourceMailbox) settles.
MoveMailboxOpen ==
    /\ movePc = "mailboxOpen"
    /\ MoveCall(Call("mailboxOpen",
                     [mailbox |-> moveItem.sourceMailbox, readOnly |-> FALSE]))
    /\ \/ /\ movePc' = "search"
          /\ UNCHANGED <<shouldContinue, errorOutput, movePending>>
       \/ MoveCatch("mailboxOpen", "mailboxOpen failed")
    /\ UNCHANGED <<moveItems, continueOnFail, moveIndex, moveClient, moveConnected,
                   normalizedMessageId, successOutput, moveReturnData, moveThrown,
                   moveSearchResult, movedOnServer>>
    /\ UNCHANGED exceptMove

\* Lines 261-275: the search by Message-ID header settles.
MoveSearch ==
    /\ movePc = "search"
    /\ MoveCall(Call("search", [header |-> normalizedMessageId[1]]))
    /\ \/ \E result \in MoveSearchResults :
             /\ moveSearchResult' = result
             /\ IF result = Undefined \/ Len(result[1]) = 0
                THEN MoveCatch("search", "Message was not found in mailbox.")
                ELSE /\ movePc' = "messageMove"
                     /\ UNCHANGED <<shouldContinue, errorOutput, movePending>>
       \/ /\ MoveCatch("search", "search failed")
          /\ UNCHANGED moveSearchResult
    /\ UNCHANGED <<moveItems, continueOnFail, moveIndex, moveClient, moveConnected,
                   normalizedMessageId, successOutput, moveReturnData, moveThrown,
                   movedOnServer>>
    /\ UNCHANGED exceptMove

\* Lines 277-297: client.messageMove(uid, mailbox, { uid: true }) settles.
MoveMessageMove ==
    /\ movePc = "messageMove"
    /\ LET item == moveItem
           messageUid == moveSearchResult[1][1]
       IN  /\ MoveCall(Call("messageMove", [uid |-> NumText[messageUid],
                                            mailbox |-> item.mailbox]))
           /\ \/ /\ successOutput' =
                       Some([messageId |-> item.messageId,
                             normalizedMessageId |-> normalizedMessageId, moved |-> TRUE,
                             movedCount |-> 1, matchedCount |-> Len(moveSearchResult[1]),
                             movedUid |-> messageUid, sourceMailbox |-> item.sourceMailbox,
                             targetMailbox |-> item.mailbox])
                 /\ movedOnServer' = movedOnServer \cup {moveIndex}
                 /\ movePc' = "teardown"
                 /\ UNCHANGED <<shouldContinue, errorOutput, movePending>>
              \/ /\ MoveCatch("messageMove", "Message could not be moved.")
                 /\ UNCHANGED <<successOutput, movedOnServer>>
              \/ /\ MoveCatch("messageMove", "messageMove failed")
                 /\ UNCHANGED <<successOutput, movedOnServer>>
    /\ UNCHANGED <<moveItems, continueOnFail, moveIndex, moveClient, moveConnected,
                   normalizedMessageId, moveReturnData, moveThrown, moveSearchResult>>
    /\ UNCHANGED exceptMove

\* Lines 317-377: the finally block's logout or close settles; a close error
\* is joined to the item's output under continue-on-fail and thrown
\* otherwise; then the item's output is pushed.
MoveTeardown ==
    /\ movePc = "teardown"
    /\ MoveCall(Call(teardownCall(moveConnected), ""))
    /\ LET closeErrorMessage == <<teardownCall(moveConnected), " failed">>
       IN  \/ AfterFinally(movePending, movePending, shouldContinue, errorOutput,
                           successOutput)
           \/ IF continueOnFail
              THEN AfterFinally(movePending, movePending, TRUE,
                       withCloseError(moveItem, normalizedMessageId,
                                      errorOutput, closeErrorMessage),
                       successOutput)
              ELSE AfterFinally(Some(Error("teardown", closeErrorMessage)), movePending,
                       shouldContinue, errorOutput, successOutput)
    /\ UNCHANGED <<moveItems, continueOnFail, moveSearchResult, movedOnServer>>
    /\ UNCHANGED exceptMove

MoveNext ==
    \/ MoveGetCredentials
    \/ MoveConnect
    \/ MoveMailboxOpen
    \/ MoveSearch
    \/ MoveMessageMove
    \/ MoveTeardown

\* ------------------------------- the criteria compiler, one step at a time

\* Longest token list of a compilation in the model.
MaxTokens == 3

\* The keywords of the switch, and every spelling of one in the model.
Keywords == (DOMAIN FlagField) \cup (DOMAIN ArgField) \cup {"HEADER"}
KeywordSpellings == {v[1] : v \in {x \in CaseVariants : x[2] \in Keywords}}

\* The token lists of the model: lists of a few tokens (a flag, a keyword
\* with an argument, HEADER, a number, a token outside the vocabulary), and
\* these lists with any one token replaced by any spelling of any keyword,
\* by the empty string, or by another text.
ContextTokens == {"unseen", "FROM", "HEADER", "5", "bogus"}
FocusTokens == KeywordSpellings \cup {"", "seenx", "X-Test", "True", "false", "alice"}

ContextLists(n) == [1..n -> ContextTokens]

TokenLists ==
    UNION {ContextLists(n)
           \cup {[c EXCEPT ![i] = f] : c \in ContextLists(n), i \in 1..n, f \in FocusTokens} :
           n \in 0..MaxTokens}

\* Most HEADER keywords of a token list of header criteria in the model.
MaxHeaders == 2

\* Token lists of HEADER criteria: header names that differ, and that differ
\* in letter case only; values that spell a boolean in some letter case, and
\* one that does not.
HeaderNames == {"X-Test", "x-test", "X-Other"}
HeaderValues == {"true", "True", "FALSE", "value2"}

RECURSIVE HeaderLists(_)
HeaderLists(n) ==
    IF n = 0 THEN {<<>>}
    ELSE {<<"HEADER", name, value>> \o rest :
             name \in HeaderNames, value \in HeaderValues, rest \in HeaderLists(n - 1)}

\* Most values, the top array apart, of a nested document of the model.
MaxEntries == 3

\* The values that are no arrays: null, a string, a number, a boolean, an
\* object.
Leaves == {Null, Str("seen"), Num(5), Bool(TRUE), Obj([seen |-> Bool(TRUE)])}

\* ValuesOf(n): the values made of n values, themselves included;
\* ListsOf(n): the lists of values made of n values together.
RECURSIVE ValuesOf(_), ListsOf(_)
ValuesOf(n) ==
    IF n = 1 THEN Leaves \cup {Arr(<<>>)} ELSE {Arr(list) : list \in ListsOf(n - 1)}

ListsOf(n) ==
    IF n = 0 THEN {<<>>}
    ELSE UNION {{<<first>> \o rest : first \in ValuesOf(k), rest \in ListsOf(n - k)} :
                   k \in 1..n}

\* Every array of at most MaxEntries values, at any depth.
NestedDocuments == UNION {{Arr(list) : list \in ListsOf(n)} : n \in 1..MaxEntries}

\* Objects over a few fields, one of them (text) a field of the search
\* object the token compiler never assigns.
SuppliedFields == [from |-> Str("alice"), seen |-> Bool(FALSE), text |-> Str("alice")]
ObjectDocuments == {Obj([k \in ks |-> SuppliedFields[k]]) : ks \in SUBSET DOMAIN SuppliedFields}

\* The documents JSON.parse can give: a flat array of string tokens
\* (FlatDocuments), a nested array, and the documents of the criteria texts
\* (nested arrays, nulls, numbers, objects, a primitive).
FlatDocuments ==
    {Arr([i \in 1..Len(list) |-> Str(list[i])]) :
        list \in TokenLists \cup UNION {HeaderLists(n) : n \in 1..MaxHeaders}}

Documents ==
    NestedDocuments
    \cup ObjectDocuments
    \cup {Criteria[c].document : c \in {x \in DOMAIN Criteria : Criteria[x].wellFormed}}

CompilerInit ==
    /\ \/ criteriaInput \in FlatDocuments
       \/ criteriaInput \in Documents
    /\ compilerPc = "start"
    /\ compilerTokens = <<>>
    /\ compilerSearch = EmptyObject
    /\ compilerResult = Undefined
    /\ shifted = <<>>

CompilerIdle ==
    /\ criteriaInput = Null
    /\ compilerPc = "idle"
    /\ compilerTokens = <<>>
    /\ compilerSearch = EmptyObject
    /\ compilerResult = Undefined
    /\ shifted = <<>>

\* Lines 414-435: the array branch flattens the document and enters
\* tokensToSearchObject; the object branch returns the object or match-all;
\* any other document is rejected.
CompileStart ==
    /\ compilerPc = "start"
    /\ IF criteriaInput.t = "arr"
       THEN LET flat == flattenSearchTokens(criteriaInput)
            IN  IF flat.ok
                THEN /\ compilerTokens' = flat.value
                     /\ compilerPc' = "loop"
                     /\ UNCHANGED compilerResult
                ELSE /\ compilerResult' = Some(Thrown(flat.error))
                     /\ compilerPc' = "thrown"
                     /\ UNCHANGED compilerTokens
       ELSE /\ compilerResult' = Some(buildSearchQuery(criteriaInput))
            /\ compilerPc' = IF criteriaInput.t = "obj" THEN "returned" ELSE "thrown"
            /\ UNCHANGED compilerTokens
    /\ UNCHANGED <<criteriaInput, compilerSearch, shifted>>
    /\ UNCHANGED exceptCompiler

\* The tokens an iteration shifted, the first as the keyword and the others
\* as its values.
shiftedBy(tokens, used) ==
    [k \in 1..used |-> [raw |-> tokens[k], use |-> IF k = 1 THEN "keyword" ELSE "value"]]

\* Lines 59-170: one iteration of the while loop.
CompileIteration ==
    /\ compilerPc = "loop"
    /\ compilerTokens # <<>>
    /\ LET step == compileStep(compilerTokens, compilerSearch)
       IN  /\ compilerTokens' = step.tokens
           /\ compilerSearch' = step.search
           /\ shifted' = shifted \o shiftedBy(compilerTokens, step.used)
           /\ IF step.ok
              THEN UNCHANGED <<compilerPc, compilerResult>>
              ELSE /\ compilerPc' = "thrown"
                   /\ compilerResult' = Some(Thrown(step.error))
    /\ UNCHANGED criteriaInput
    /\ UNCHANGED exceptCompiler

\* Line 172: the loop is over and the predicate is returned.
CompileReturn ==
    /\ compilerPc = "loop"
    /\ compilerTokens = <<>>
    /\ compilerResult' = Some(Returned(searchOrAll(compilerSearch)))
    /\ compilerPc' = "returned"
    /\ UNCHANGED <<criteriaInput, compilerTokens, compilerSearch, shifted>>
    /\ UNCHANGED exceptCompiler

CompilerNext ==
    \/ CompileStart
    \/ CompileIteration
    \/ CompileReturn

\* ---------------------------------- the part-tree pass, one step at a time

\* Largest number of nodes of a part tree in the model.
MaxNodes == 3

\* The encodings a node can carry: none, whitespace only, one that matches
\* no pattern of the model, and ones that do once normalized.
EncodingSamples ==
    {<<>>, <<" ", "\t">>, <<"7bit">>, <<"Base64">>, <<" ", "8bit", "\t", " ", "+", " ">>}

\* The node numbered k of a tree of n nodes, where parent gives the number of
\* each node's parent (smaller than its own) and enc each node's encoding;
\* the children of a node are in the order of their numbers.
RECURSIVE treeNode(_, _, _, _)
treeNode(k, n, parent, enc) ==
    LET isChild(c) == c > 1 /\ parent[c] = k
        children == SelectSeq([c \in 1..n |-> c], isChild)
    IN  Node(IF k = 1 THEN "multipart/mixed" ELSE "text/plain",
             IF k = 1 THEN "" ELSE NumText[k], "", enc[k],
             [j \in 1..Len(children) |-> treeNode(children[j], n, parent, enc)])

\* Every tree of at most MaxNodes nodes over the encodings.
Trees ==
    UNION {{treeNode(1, n, parent, enc) :
               parent \in {f \in [1..n -> 0..n] : f[1] = 0 /\ \A c \in 2..n : f[c] \in 1..(c - 1)},
               enc \in [1..n -> EncodingSamples]} : n \in 1..MaxNodes}

\* Every tree of n nodes whose nodes all carry the same encoding, and those
\* of one node more than the other trees of the model have.
UniformTreesOf(n) ==
    {treeNode(1, n, parent, [c \in 1..n |-> e]) :
        parent \in {f \in [1..n -> 0..n] : f[1] = 0 /\ \A c \in 2..n : f[c] \in 1..(c - 1)},
        e \in EncodingSamples}

UniformTrees == UniformTreesOf(MaxNodes + 1)

RegexSamples ==
    {[source |-> src, ignoreCase |-> ic] :
        src \in {DefaultPattern, Base64Pattern}, ic \in BOOLEAN}

MatcherInit ==
    /\ matcherStructure \in {Undefined} \cup {Some(t) : t \in Trees \cup UniformTrees}
    /\ matcherRegex \in RegexSamples
    /\ matcherPc = "start"
    /\ matcherStack = <<>>
    /\ matcherMatches = <<>>
    /\ shiftedNodes = <<>>

\* The pass on a tree of any shape, its nodes all alike.
TraversalInit ==
    /\ matcherStructure \in {Some(t) : t \in UNION {UniformTreesOf(n) : n \in 1..(MaxNodes + 1)}}
    /\ matcherRegex \in RegexSamples
    /\ matcherPc = "start"
    /\ matcherStack = <<>>
    /\ matcherMatches = <<>>
    /\ shiftedNodes = <<>>

MatcherIdle ==
    /\ matcherStructure = Undefined
    /\ matcherRegex = [source |-> DefaultPattern, ignoreCase |-> TRUE]
    /\ matcherPc = "idle"
    /\ matcherStack = <<>>
    /\ matcherMatches = <<>>
    /\ shiftedNodes = <<>>

\* Lines 218-223: without a structure the result is empty; else the stack
\* starts with the root.
MatchStart ==
    /\ matcherPc = "start"
    /\ IF matcherStructure = Undefined
       THEN /\ matcherPc' = "returned"
            /\ UNCHANGED matcherStack
       ELSE /\ matcherPc' = "loop"
            /\ matcherStack' = <<matcherStructure[1]>>
    /\ UNCHANGED <<matcherStructure, matcherRegex, matcherMatches, shiftedNodes>>
    /\ UNCHANGED exceptMatcher

\* A variant of the iteration that reads the head of the work queue and
\* leaves it there, as stack[0] would.
MatchIterationWithoutShift ==
    /\ matcherPc = "loop"
    /\ Len(matcherStack) > 0
    /\ LET step == matchStep(matcherStack, matcherRegex, matcherMatches)
       IN  /\ matcherStack' = <<Head(matcherStack)>> \o step.stack
           /\ matcherMatches' = step.matches
           /\ shiftedNodes' = Append(shiftedNodes, step.node)
    /\ UNCHANGED <<matcherStructure, matcherRegex, matcherPc>>
    /\ UNCHANGED exceptMatcher

\* Lines 225-239: one iteration of the while loop.
MatchIteration ==
    /\ matcherPc = "loop"
    /\ Len(matcherStack) > 0
    /\ LET step == matchStep(matcherStack, matcherRegex, matcherMatches)
       IN  /\ matcherStack' = step.stack
           /\ matcherMatches' = step.matches
           /\ shiftedNodes' = Append(shiftedNodes, step.node)
    /\ UNCHANGED <<matcherStructure, matcherRegex, matcherPc>>
    /\ UNCHANGED exceptMatcher

\* Line 241: the stack is empty and the matches are returned.
MatchReturn ==
    /\ matcherPc = "loop"
    /\ Len(matcherStack) = 0
    /\ matcherPc' = "returned"
    /\ UNCHANGED <<matcherStructure, matcherRegex, matcherStack, matcherMatches, shiftedNodes>>
    /\ UNCHANGED exceptMatcher

MatcherNext ==
    \/ MatchStart
    \/ MatchIteration
    \/ MatchReturn

\* ------------------------------------------------- ImapGetMessage.execute

\* Largest number of input items of one execute in the model.
MaxGetItems == 2

GetParameters(ids, mailboxes) ==
    {[messageId |-> id, mailbox |-> m, includeRaw |-> r] :
        id \in ids, m \in mailboxes, r \in BOOLEAN}

\* fetchOne(uid, fetchQuery, { uid: true }): false, or a message without or
\* with its source.
GetFetchResponses(uid) ==
    {Undefined, Some([uid |-> uid, source |-> Undefined]), Some([uid |-> uid, source |-> Some(3)])}

\* Lines 94-96, on the trimmed parameter.
getNormalizeMessageId(rawMessageId) ==
    IF Len(rawMessageId) > 0 /\ Head(rawMessageId) = "<"
       /\ rawMessageId[Len(rawMessageId)] = ">"
    THEN rawMessageId
    ELSE <<"<">> \o stripBrackets(rawMessageId) \o <<">">>

\* The checks of lines 64-92, in the order the code makes them.
getValidationError(credentials, rawMessageId, mailbox) ==
    IF credentials = Undefined THEN Some("IMAP credentials are required but missing.")
    ELSE LET c == credentials[1]
             port == IF c.port # Undefined THEN c.port[1] ELSE 993
         IN  IF rawMessageId = <<>> THEN Some("Message ID must be provided.")
             ELSE IF mailbox = "" THEN Some("Mailbox is required to fetch a message.")
             ELSE IF port <= 0 THEN Some("IMAP credential port must be a positive number.")
             ELSE IF c.host = "" \/ c.user = "" \/ c.password = ""
             THEN Some("IMAP credentials must include host, user, and password.")
             ELSE Undefined

\* Lines 150-216: the output item of a fetched message.
getOutput(item, normalized, message) ==
    [json |-> [messageId |-> trim(item.messageId), normalizedMessageId |-> normalized,
               mailbox |-> item.mailbox, uid |-> message.uid,
               source |-> IF item.includeRaw THEN message.source ELSE Undefined]]

GetInit ==
    /\ \/ getItems \in UNION {[1..n -> GetParameters({<<"a">>, <<"<", "a">>}, {"INBOX"})] :
                                 n \in 1..MaxGetItems}
       \/ getItems \in {<<p>> : p \in GetParameters(MessageIds, {"INBOX", ""})}
    /\ getIndex = 0
    /\ getPc = "getCredentials"
    /\ getConnected = FALSE
    /\ getNormalizedMessageId = Undefined
    /\ getCalls = <<>>
    /\ getSearchResult = Undefined
    /\ getReturnData = <<>>
    /\ getPending = Undefined
    /\ getThrown = Undefined

GetIdle ==
    /\ getItems = <<>>
    /\ getIndex = 0
    /\ getPc = "idle"
    /\ getConnected = FALSE
    /\ getNormalizedMessageId = Undefined
    /\ getCalls = <<>>
    /\ getSearchResult = Undefined
    /\ getReturnData = <<>>
    /\ getPending = Undefined
    /\ getThrown = Undefined

GetCall(call) == getCalls' = Append(getCalls, call)

\* An error thrown in the try block of lines 112-217: it is in flight while
\* the finally block runs.
GetThrow(stage, message) ==
    /\ getPending' = Some(Error(stage, <<message>>))
    /\ getPc' = "teardown"

\* Lines 59-111: the credential lookup resolves, the parameters are checked,
\* the Message-ID is normalized and the client is constructed; an error of
\* these lines is thrown outside the try block.
GetMessageCredentials ==
    /\ getPc = "getCredentials"
    /\ GetCall(Call("getCredentials", "imap"))
    /\ \E credentials \in CredentialSamples :
          LET item == getItems[getIndex + 1]
              rawMessageId == trim(item.messageId)
              e == getValidationError(credentials, rawMessageId, item.mailbox)
          IN  IF e # Undefined
              THEN /\ getThrown' = Some(Error("parameters", <<e[1]>>))
                   /\ getPc' = "failed"
                   /\ UNCHANGED getNormalizedMessageId
              ELSE /\ getNormalizedMessageId' = Some(getNormalizeMessageId(rawMessageId))
                   /\ getPc' = "connect"
                   /\ UNCHANGED getThrown
    /\ getConnected' = FALSE
    /\ UNCHANGED <<getItems, getIndex, getSearchResult, getReturnData, getPending>>
    /\ UNCHANGED exceptGet

\* Lines 113-114: client.connect() settles.
GetMessageConnect ==
    /\ getPc = "connect"
    /\ GetCall(Call("connect", ""))
    /\ \/ /\ getConnected' = TRUE
          /\ getPc' = "mailboxOpen"
          /\ UNCHANGED getPending
       \/ /\ GetThrow("connect", "connect failed")
          /\ UNCHANGED getConnected
    /\ UNCHANGED <<getItems, getIndex, getNormalizedMessageId, getSearchResult, getReturnData,
                   getThrown>>
    /\ UNCHANGED exceptGet

\* A variant of the open that leaves the read-only option out.
GetMessageMailboxOpenWritable ==
    /\ getPc = "mailboxOpen"
    /\ GetCall(Call("mailboxOpen",
                    [mailbox |-> getItems[getIndex + 1].mailbox, readOnly |-> FALSE]))
    /\ \/ /\ getPc' = "search"
          /\ UNCHANGED getPending
       \/ GetThrow("mailboxOpen", "mailboxOpen failed")
    /\ UNCHANGED <<getItems, getIndex, getConnected, getNormalizedMessageId, getSearchResult,
                   getReturnData, getThrown>>
    /\ UNCHANGED exceptGet

\* Line 116: client.mailboxOpen(mailbox, { readOnly: true }) settles.
GetMessageMailboxOpen ==
    /\ getPc = "mailboxOpen"
    /\ GetCall(Call("mailboxOpen",
                    [mailbox |-> getItems[getIndex + 1].mailbox, readOnly |-> TRUE]))
    /\ \/ /\ getPc' = "search"
          /\ UNCHANGED getPending
       \/ GetThrow("mailboxOpen", "mailboxOpen failed")
    /\ UNCHANGED <<getItems, getIndex, getConnected, getNormalizedMessageId, getSearchResult,
                   getReturnData, getThrown>>
    /\ UNCHANGED exceptGet

\* Lines 118-127: the search by Message-ID header settles.
GetMessageSearch ==
    /\ getPc = "search"
    /\ GetCall(Call("search", [header |-> getNormalizedMessageId[1]]))
    /\ \/ \E result \in MoveSearchResults :
             /\ getSearchResult' = result
             /\ IF result = Undefined \/ Len(result[1]) = 0
                THEN GetThrow("search", "Message was not found in mailbox.")
                ELSE /\ getPc' = "fetchOne"
                     /\ UNCHANGED getPending
       \/ /\ GetThrow("search", "search failed")
          /\ UNCHANGED getSearchResult
    /\ UNCHANGED <<getItems, getIndex, getConnected, getNormalizedMessageId, getReturnData,
                   getThrown>>
    /\ UNCHANGED exceptGet

\* Lines 129-216: client.fetchOne(String(searchResult[0]), fetchQuery,
\* { uid: true }) settles and the output item is pushed.
GetMessageFetchOne ==
    /\ getPc = "fetchOne"
    /\ LET item == getItems[getIndex + 1]
           uid == getSearchResult[1][1]
       IN  /\ GetCall(Call("fetchOne", [uid |-> NumText[uid], source |-> item.includeRaw]))
           /\ \/ \E message \in GetFetchResponses(uid) :
                    IF message = Undefined
                    THEN /\ GetThrow("fetchOne", "Message was not found in mailbox.")
                         /\ UNCHANGED getReturnData
                    ELSE /\ getReturnData' =
                                Append(getReturnData,
                                       getOutput(item, getNormalizedMessageId[1], message[1]))
                         /\ getPc' = "teardown"
                         /\ UNCHANGED getPending
              \/ /\ GetThrow("fetchOne", "fetchOne failed")
                 /\ UNCHANGED getReturnData
    /\ UNCHANGED <<getItems, getIndex, getConnected, getNormalizedMessageId, getSearchResult,
                   getThrown>>
    /\ UNCHANGED exceptGet

\* Lines 217-223: the finally block's logout or close settles; execute
\* rejects with its error or with the error in flight, or goes on to the
\* next item, or returns.
GetMessageTeardown ==
    /\ getPc = "teardown"
    /\ GetCall(Call(teardownCall(getConnected), ""))
    /\ \E teardownError \in
            {Undefined, Some(Error("teardown", <<teardownCall(getConnected), " failed">>))} :
          LET r == rejection(getPending, teardownError)
          IN  IF r # Undefined
              THEN /\ getThrown' = r
                   /\ getPc' = "failed"
                   /\ UNCHANGED <<getIndex, getPending>>
              ELSE /\ getIndex' = getIndex + 1
                   /\ getPc' = IF getIndex + 1 < Len(getItems) THEN "getCredentials" ELSE "done"
                   /\ UNCHANGED <<getThrown, getPending>>
    /\ UNCHANGED <<getItems, getConnected, getNormalizedMessageId, getSearchResult,
                   getReturnData>>
    /\ UNCHANGED exceptGet

GetNext ==
    \/ GetMessageCredentials
    \/ GetMessageConnect
    \/ GetMessageMailboxOpen
    \/ GetMessageSearch
    \/ GetMessageFetchOne
    \/ GetMessageTeardown

\* ------------------------------------------ ImapMove.execute (UID versions)

\* The three executes that move a message by its UID: the first one, whose
\* calls follow each other without a try block (part_002); the one that
\* reads the connection from the node's parameters (ImapMove.node.ts, lines
\* 69-117); the one that reads it from the credentials (part_001).
UidVersions == {"sequential", "parameters", "credentials"}

\* The uid parameter: the default, and a message's UID.
UidParameters == {0, 7}

\* !uid || uid <= 0
uidError(uid) ==
    IF uid = 0 \/ uid <= 0 THEN Some("Message UID must be a positive number.") ELSE Undefined

\* The checks of part_001 lines 60-83, in the order the code makes them.
uidValidationError(credentials, uid) ==
    IF credentials = Undefined THEN Some("IMAP credentials are required but missing.")
    ELSE LET c == credentials[1]
             port == IF c.port # Undefined THEN c.port[1] ELSE 993
         IN  IF uidError(uid) # Undefined THEN uidError(uid)
             ELSE IF port <= 0 THEN Some("IMAP credential port must be a positive number.")
             ELSE IF c.host = "" \/ c.user = "" \/ c.password = ""
             THEN Some("IMAP credentials must include host, user, and password.")
             ELSE Undefined

\* The step an item starts at.
uidItemStep(version) ==
    CASE version = "sequential" -> "connect"
      [] version = "parameters" -> "item"
      [] version = "credentials" -> "getCredentials"

UidInit ==
    /\ uidVersion \in UidVersions
    /\ uidItems \in UNION {[1..n -> UidParameters] : n \in 1..MaxMoveItems}
    /\ uidIndex = 0
    /\ uidPc = uidItemStep(uidVersion)
    /\ uidConnected = FALSE
    /\ uidCalls = <<>>
    /\ uidReturnData = <<>>
    /\ uidPending = Undefined
    /\ uidThrown = Undefined

UidIdle ==
    /\ uidVersion = "credentials"
    /\ uidItems = <<>>
    /\ uidIndex = 0
    /\ uidPc = "idle"
    /\ uidConnected = FALSE
    /\ uidCalls = <<>>
    /\ uidReturnData = <<>>
    /\ uidPending = Undefined
    /\ uidThrown = Undefined

UidCall(call) == uidCalls' = Append(uidCalls, call)

\* An error outside a try block: execute rejects with it.
UidReject(stage, message) ==
    /\ uidThrown' = Some(Error(stage, <<message>>))
    /\ uidPc' = "failed"

\* An error thrown in the try block: it is in flight while the finally
\* block runs.
UidThrow(stage, message) ==
    /\ uidPending' = Some(Error(stage, <<message>>))
    /\ uidPc' = "teardown"

\* returnData.push({ json: { uid, moved: true, ... } }) and the loop's next
\* round.
UidPush ==
    /\ uidReturnData' = Append(uidReturnData, [json |-> [uid |-> uidItems[uidIndex + 1],
                                                        moved |-> TRUE]])
    /\ uidIndex' = uidIndex + 1
    /\ uidPc' = IF uidIndex + 1 < Len(uidItems) THEN uidItemStep(uidVersion) ELSE "done"

\* part_002, lines 67-83: the parameters are read, the client is
\* constructed and client.connect() settles.
SequentialConnect ==
    /\ uidVersion = "sequential"
    /\ uidPc = "connect"
    /\ UidCall(Call("connect", ""))
    /\ \/ /\ uidPc' = "mailboxOpen"
          /\ UNCHANGED uidThrown
       \/ UidReject("connect", "connect failed")
    /\ UNCHANGED <<uidVersion, uidItems, uidIndex, uidConnected, uidReturnData, uidPending>>
    /\ UNCHANGED exceptUid

\* part_002, line 84: client.mailboxOpen('INBOX') settles.
SequentialMailboxOpen ==
    /\ uidVersion = "sequential"
    /\ uidPc = "mailboxOpen"
    /\ UidCall(Call("mailboxOpen", [mailbox |-> "INBOX", readOnly |-> FALSE]))
    /\ \/ /\ uidPc' = "messageMove"
          /\ UNCHANGED uidThrown
       \/ UidReject("mailboxOpen", "mailboxOpen failed")
    /\ UNCHANGED <<uidVersion, uidItems, uidIndex, uidConnected, uidReturnData, uidPending>>
    /\ UNCHANGED exceptUid

\* part_002, line 85: client.messageMove(uid, mailbox) settles; its result
\* is not looked at.
SequentialMessageMove ==
    /\ uidVersion = "sequential"
    /\ uidPc = "messageMove"
    /\ UidCall(Call("messageMove", [uid |-> uidItems[uidIndex + 1], mailbox |-> "Spam"]))
    /\ \/ /\ uidPc' = "logout"
          /\ UNCHANGED uidThrown
       \/ UidReject("messageMove", "messageMove failed")
    /\ UNCHANGED <<uidVersion, uidItems, uidIndex, uidConnected, uidReturnData, uidPending>>
    /\ UNCHANGED exceptUid

\* part_002, lines 86-88: client.logout() settles and the output item is
\* pushed.
SequentialLogout ==
    /\ uidVersion = "sequential"
    /\ uidPc = "logout"
    /\ UidCall(Call("logout", ""))
    /\ \/ /\ UidPush
          /\ UNCHANGED uidThrown
       \/ /\ UidReject("logout", "logout failed")
          /\ UNCHANGED <<uidIndex, uidReturnData>>
    /\ UNCHANGED <<uidVersion, uidItems, uidConnected, uidPending>>
    /\ UNCHANGED exceptUid

\* ImapMove.node.ts, lines 73-92: the parameters are read, the uid is
\* checked and the client is constructed.
UidItem ==
    /\ uidVersion = "parameters"
    /\ uidPc = "item"
    /\ LET e == uidError(uidItems[uidIndex + 1])
       IN  IF e # Undefined
           THEN UidReject("parameters", e[1])
           ELSE /\ uidPc' = "connect"
                /\ UNCHANGED uidThrown
    /\ uidConnected' = FALSE
    /\ UNCHANGED <<uidVersion, uidItems, uidIndex, uidCalls, uidReturnData, uidPending>>
    /\ UNCHANGED exceptUid

\* part_001, lines 56-96: the credential lookup resolves, the uid and the
\* credentials are checked and the client is constructed.
UidGetCredentials ==
    /\ uidVersion = "credentials"
    /\ uidPc = "getCredentials"
    /\ UidCall(Call("getCredentials", "imap"))
    /\ \E credentials \in CredentialSamples :
          LET e == uidValidationError(credentials, uidItems[uidIndex + 1])
          IN  IF e # Undefined
              THEN UidReject("parameters", e[1])
              ELSE /\ uidPc' = "connect"
                   /\ UNCHANGED uidThrown
    /\ uidConnected' = FALSE
    /\ UNCHANGED <<uidVersion, uidItems, uidIndex, uidReturnData, uidPending>>
    /\ UNCHANGED exceptUid

\* ImapMove.node.ts, lines 96-97 (part_001, lines 100-101): client.connect()
\* settles.
UidConnect ==
    /\ uidVersion \in {"parameters", "credentials"}
    /\ uidPc = "connect"
    /\ UidCall(Call("connect", ""))
    /\ \/ /\ uidConnected' = TRUE
          /\ uidPc' = "mailboxOpen"
          /\ UNCHANGED uidPending
       \/ /\ UidThrow("connect", "connect failed")
          /\ UNCHANGED uidConnected
    /\ UNCHANGED <<uidVersion, uidItems, uidIndex, uidReturnData, uidThrown>>
    /\ UNCHANGED exceptUid

\* ImapMove.node.ts, line 98 (part_001, line 102):
\* client.mailboxOpen(sourceMailbox) settles.
UidMailboxOpen ==
    /\ uidVersion \in {"parameters", "credentials"}
    /\ uidPc = "mailboxOpen"
    /\ UidCall(Call("mailboxOpen", [mailbox |-> "INBOX", readOnly |-> FALSE]))
    /\ \/ /\ uidPc' = "messageMove"
          /\ UNCHANGED uidPending
       \/ UidThrow("mailboxOpen", "mailboxOpen failed")
    /\ UNCHANGED <<uidVersion, uidItems, uidIndex, uidConnected, uidReturnData, uidThrown>>
    /\ UNCHANGED exceptUid

\* ImapMove.node.ts, lines 99-104 (part_001, lines 103-108):
\* client.messageMove(String(uid), mailbox, { uid: true }) settles; a result
\* of false is thrown as the message not found.
UidMessageMove ==
    /\ uidVersion \in {"parameters", "credentials"}
    /\ uidPc = "messageMove"
    /\ UidCall(Call("messageMove", [uid |-> uidItems[uidIndex + 1], mailbox |-> "Spam"]))
    /\ \/ /\ uidPc' = "teardown"
          /\ UNCHANGED uidPending
       \/ UidThrow("messageMove", "Message was not found in mailbox.")
       \/ UidThrow("messageMove", "messageMove failed")
    /\ UNCHANGED <<uidVersion, uidItems, uidIndex, uidConnected, uidReturnData, uidThrown>>
    /\ UNCHANGED exceptUid

\* ImapMove.node.ts, lines 105-113 (part_001, lines 109-117): the finally
\* block's logout or close settles; execute rejects with its error or with
\* the error in flight, or the output item is pushed.
UidTeardown ==
    /\ uidVersion \in {"parameters", "credentials"}
    /\ uidPc = "teardown"
    /\ UidCall(Call(teardownCall(uidConnected), ""))
    /\ \E teardownError \in
            {Undefined, Some(Error("teardown", <<teardownCall(uidConnected), " failed">>))} :
          LET r == rejection(uidPending, teardownError)
          IN  IF r # Undefined
              THEN /\ uidThrown' = r
                   /\ uidPc' = "failed"
                   /\ UNCHANGED <<uidIndex, uidReturnData>>
              ELSE /\ UidPush
                   /\ UNCHANGED uidThrown
    /\ UNCHANGED <<uidVersion, uidItems, uidConnected, uidPending>>
    /\ UNCHANGED exceptUid

UidNext ==
    \/ SequentialConnect
    \/ SequentialMailboxOpen
    \/ SequentialMessageMove
    \/ SequentialLogout
    \/ UidItem
    \/ UidGetCredentials
    \/ UidConnect
    \/ UidMailboxOpen
    \/ UidMessageMove
    \/ UidTeardown

\* ------------------------------------------------------- the specifications

vars == <<scanVars, moveVars, compilerVars, matcherVars, getVars, uidVars>>

\* The scan and the move are separate nodes: each specification runs one of
\* them and leaves the other where it is.
ScanIdle ==
    /\ input = Item("INBOX", "unseen", DefaultPattern, DefaultOptions)
    /\ pc = "idle"
    /\ searchQuery = Undefined
    /\ encodingRegex = Undefined
    /\ client = FALSE
    /\ connected = FALSE
    /\ calls = <<>>
    /\ searchResult = Undefined
    /\ totalCandidates = 0
    /\ idx = 0
    /\ scanned = 0
    /\ matches = <<>>
    /\ entry = Undefined
    /\ logs = <<>>
    /\ returnData = <<>>
    /\ pending = Undefined
    /\ thrown = Undefined
    /\ visited = <<>>

MoveIdle ==
    /\ moveItems = <<>>
    /\ continueOnFail = FALSE
    /\ moveIndex = 0
    /\ movePc = "idle"
    /\ moveClient = FALSE
    /\ moveConnected = FALSE
    /\ normalizedMessageId = Undefined
    /\ shouldContinue = FALSE
    /\ errorOutput = Undefined
    /\ successOutput = Undefined
    /\ moveCalls = <<>>
    /\ moveReturnData = <<>>
    /\ movePending = Undefined
    /\ moveThrown = Undefined
    /\ moveSearchResult = Undefined
    /\ movedOnServer = {}

Init == ScanInit /\ MoveIdle /\ CompilerIdle /\ MatcherIdle /\ GetIdle /\ UidIdle

Next == ScanNext

Spec == Init /\ [][Next]_vars

InitMove == MoveInit /\ ScanIdle /\ CompilerIdle /\ MatcherIdle /\ GetIdle /\ UidIdle

NextMove == MoveNext

SpecMove == InitMove /\ [][NextMove]_vars

\* The criteria compiler and the part-tree pass are pure functions: each has
\* a specification that draws its input and runs it to its return or throw.
InitCompiler == CompilerInit /\ ScanIdle /\ MoveIdle /\ MatcherIdle /\ GetIdle /\ UidIdle

NextCompiler == CompilerNext

SpecCompiler == InitCompiler /\ [][NextCompiler]_vars

InitMatcher == MatcherInit /\ ScanIdle /\ MoveIdle /\ CompilerIdle /\ GetIdle /\ UidIdle

NextMatcher == MatcherNext

SpecMatcher == InitMatcher /\ [][NextMatcher]_vars

\* The scan as the runtime schedules it: a settled await is always followed
\* by its continuation.
SpecLive == Init /\ [][Next]_vars /\ WF_vars(Next)

\* The scan or the part-tree pass, either of them run with its loop head
\* always followed by the loop body or the exit, and every call settled.
InitTerminates ==
    \/ Init
    \/ TraversalInit /\ ScanIdle /\ MoveIdle /\ CompilerIdle /\ GetIdle /\ UidIdle

NextTerminates ==
    \/ Next
    \/ NextMatcher

SpecTerminates == InitTerminates /\ [][NextTerminates]_vars /\ WF_vars(NextTerminates)

\* The two nodes that read a mailbox, the encoding scan and Get Message:
\* one of them runs.
InitReaders ==
    \/ Init
    \/ GetInit /\ ScanIdle /\ MoveIdle /\ CompilerIdle /\ MatcherIdle /\ UidIdle

NextReaders ==
    \/ Next
    \/ GetNext

SpecReaders == InitReaders /\ [][NextReaders]_vars


\* The versions of the move node, the Message-ID version and the three UID
\* versions: one of them runs.
InitMoveVersions ==
    \/ InitMove
    \/ UidInit /\ ScanIdle /\ MoveIdle /\ CompilerIdle /\ MatcherIdle /\ GetIdle

NextMoveVersions ==
    \/ NextMove
    \/ UidNext

SpecMoveVersions == InitMoveVersions /\ [][NextMoveVersions]_vars

\* The two nodes that find a message by its Message-ID, the move and Get
\* Message, given one item with any Message-ID parameter of the model: one
\* of them runs.
InitMessageIds ==
    \/ MoveAnyIdInit /\ ScanIdle /\ CompilerIdle /\ MatcherIdle /\ GetIdle /\ UidIdle
    \/ GetInit /\ ScanIdle /\ MoveIdle /\ CompilerIdle /\ MatcherIdle /\ UidIdle

NextMessageIds ==
    \/ NextMove
    \/ GetNext

SpecMessageIds == InitMessageIds /\ [][NextMessageIds]_vars

\* ------------------------------------------------------------ properties

\* Whether a visited candidate matched: the fetch gave a message with an
\* identifier and the two passes found at least one provenance string.
Matching(v) ==
    /\ v.response # Undefined
    /\ v.response[1].uid # 0
    /\ Len(v.suspectDetails) > 0

MatchingPositions == {k \in 1..Len(visited) : Matching(visited[k])}

\* The structural-metadata fetches among the calls, in order.
IsStructuralFetch(c) == c.op = "fetchOne" /\ c.arg.query = StructuralQuery
StructuralFetches == SelectSeq(calls, IsStructuralFetch)

IsTeardown(c) == c.op \in {"logout", "close"}

Finished == pc \in {"done", "failed"}
HasSummary == Len(returnData) > 0
TheSummary == returnData[1].json

\* C1: with stopAfterFirst set the loop stops right after the first matching
\* candidate: every structural fetch that is followed by another one was
\* answered by a candidate that did not match, the match list never holds
\* more than one record, and the summary's scanned count is the position of
\* the first matching candidate, or totalCandidates when none matched.
C1_StopAfterFirst ==
    stopAfterFirstOf(input.options) =>
        /\ \A k \in 1..(Len(StructuralFetches) - 1) :
              k <= Len(visited) /\ ~Matching(visited[k])
        /\ Len(matches) <= 1
        /\ (HasSummary /\ searchResult # Undefined) =>
              /\ Len(TheSummary.matchDetails) <= 1
              /\ TheSummary.scanned =
                    IF MatchingPositions # {}
                    THEN CHOOSE k \in MatchingPositions : \A j \in MatchingPositions : k <= j
                    ELSE totalCandidates

\* A four-candidate list whose third candidate is the first to match: the
\* scan is over with scanned < totalCandidates.
C1_Witness ==
    /\ stopAfterFirstOf(input.options)
    /\ pc = "done"
    /\ totalCandidates = 4
    /\ MatchingPositions = {3}
    /\ TheSummary.scanned = 3
    /\ TheSummary.scanned < TheSummary.totalCandidates

\* C2: with maxResults = N > 0 the match list never holds more than N
\* records, no fetch is pending once it holds N, and with stopAfterFirst
\* disabled the summary holds exactly N records when at least N candidates
\* match (fewer only when every candidate was visited and fewer matched).
C2_MaxResults ==
    LET N == maxResultsOf(input.options)
    IN  N > 0 =>
          /\ Len(matches) <= N
          /\ Len(matches) >= N => pc \in {"teardown", "done", "failed"}
          /\ \A k \in 1..(Len(StructuralFetches) - 1) :
                Cardinality({j \in MatchingPositions : j <= k}) < N
          /\ (HasSummary /\ ~stopAfterFirstOf(input.options)) =>
                /\ Len(TheSummary.matchDetails) <= N
                /\ Len(TheSummary.matchDetails) < N =>
                      /\ TheSummary.scanned = totalCandidates
                      /\ Cardinality(MatchingPositions) = Len(TheSummary.matchDetails)

\* maxResults = 2 without stopAfterFirst: the scan is over with two records
\* and candidates left unvisited.
C2_Witness ==
    /\ maxResultsOf(input.options) = 2
    /\ ~stopAfterFirstOf(input.options)
    /\ pc = "done"
    /\ Len(TheSummary.matchDetails) = 2
    /\ TheSummary.scanned < TheSummary.totalCandidates

\* C3: once the client exists, an invocation that has ended made exactly one
\* teardown call, as its last call: logout when connect had succeeded, close
\* otherwise; before the end no teardown call has been made.
C3_TeardownOnce ==
    LET teardowns == SelectSeq(calls, IsTeardown)
    IN  /\ (client /\ Finished) =>
              /\ Len(teardowns) = 1
              /\ calls[Len(calls)].op = (IF connected THEN "logout" ELSE "close")
        /\ ~Finished => Len(teardowns) = 0

\* A fetch failed in the middle of the loop and the invocation ended after
\* its logout.
C3_Witness ==
    /\ pc = "failed"
    /\ pending # Undefined
    /\ pending[1].stage = "fetchOne"
    /\ scanned >= 1
    /\ calls[Len(calls)].op = "logout"


\* The error execute rejects with is the one that was in flight when the
\* finally block was entered.
ScanSurfacesEarlierError ==
    (pc = "failed" /\ pending # Undefined) => thrown = pending

MoveSurfacesEarlierError ==
    (movePc = "failed" /\ movePending # Undefined) => moveThrown = movePending

\* C4: when a stage failed with an error and the teardown failed as well,
\* the error execute rejects with is the stage's error: for the scan, and
\* for the move without continue-on-fail (with it, the item's output joins
\* the two messages).
C4_NoMasking == ScanSurfacesEarlierError /\ MoveSurfacesEarlierError

\* The input is one of the invalid ones of the claim, told by its text.
InvalidInput ==
    \/ input.searchCriteria \in {"invalidJson", "nestedObject", "missingArgument",
                                 "unsupported"}
    \/ input.encodingPattern = BrokenPattern

\* C5: an invocation whose criteria are invalid JSON, hold a nested object,
\* lack a keyword's argument or hold an unsupported token, or whose pattern
\* does not compile, fails in its first step: no credential lookup, connect,
\* mailboxOpen, search or fetch is ever called and no client is constructed.
C5_FailsBeforeAnyCall ==
    InvalidInput =>
        /\ calls = <<>>
        /\ ~client
        /\ pc \in {"start", "failed"}
        /\ pc = "failed" => thrown # Undefined /\ thrown[1].stage \in
                                {"mailbox", "criteria", "pattern"}

\* A criteria list with a nested object has been rejected, and so has a
\* pattern that does not compile, without a call.
C5_Witness ==
    /\ pc = "failed"
    /\ calls = <<>>
    /\ input.mailbox = "INBOX"
    /\ \/ input.searchCriteria = "missingArgument" /\ thrown[1].stage = "criteria"
       \/ /\ input.searchCriteria = "unseen"
          /\ input.encodingPattern = BrokenPattern
          /\ thrown[1].stage = "pattern"

\* The length of the identifier list the search returned, 0 without a list.
SearchLength == IF searchResult = Undefined THEN 0 ELSE Len(searchResult[1])

\* C6: in every state matches <= scanned <= totalCandidates and
\* totalCandidates is the length of the list the search returned; the
\* summary carries these counters, and its match count is the length of its
\* matchDetails.
C6_Counters ==
    /\ Len(matches) <= scanned
    /\ scanned <= totalCandidates
    /\ totalCandidates = SearchLength
    /\ HasSummary =>
          /\ TheSummary.matches = Len(TheSummary.matchDetails)
          /\ TheSummary.matches <= TheSummary.scanned
          /\ TheSummary.scanned <= TheSummary.totalCandidates
          /\ TheSummary.totalCandidates = SearchLength
          /\ TheSummary.matchDetails = matches
          /\ TheSummary.scanned = scanned

\* A scan that ended early: one match among two visited of three candidates.
C6_Witness ==
    /\ pc = "done"
    /\ TheSummary.matches = 1
    /\ TheSummary.scanned = 2
    /\ TheSummary.totalCandidates = 3

\* The position in the search result of the candidate a record is for.
PositionsOf(record) ==
    {k \in 1..SearchLength : NumText[searchResult[1][k]] = record["imapUid"]}

InVisitingOrder(records) ==
    /\ \A m \in 1..Len(records) : PositionsOf(records[m]) # {}
    /\ \A m, n \in 1..Len(records) :
          m < n => \A a \in PositionsOf(records[m]) : \A b \in PositionsOf(records[n]) : a < b

\* C7: the k-th fetch of structural metadata is for the k-th identifier of
\* the search result, and the records of the match list, in the loop and in
\* the summary, are for candidates at strictly increasing positions.
C7_SearchOrder ==
    /\ Len(StructuralFetches) <= SearchLength
    /\ \A k \in 1..Len(StructuralFetches) :
          StructuralFetches[k].arg.uid = NumText[searchResult[1][k]]
    /\ InVisitingOrder(matches)
    /\ HasSummary => InVisitingOrder(TheSummary.matchDetails)

\* The first and the third of at least four candidates matched, the second
\* did not.
C7_Witness ==
    /\ pc = "done"
    /\ Len(StructuralFetches) >= 4
    /\ Len(TheSummary.matchDetails) = 2
    /\ PositionsOf(TheSummary.matchDetails[1]) = {1}
    /\ PositionsOf(TheSummary.matchDetails[2]) = {3}

\* An await of the invocation was rejected.
ExternalCallFailed ==
    \/ pending # Undefined
    \/ thrown # Undefined /\ thrown[1].stage = "teardown"

\* The parameters or the credential record were rejected.
InputRejected ==
    thrown # Undefined /\ thrown[1].stage \in {"mailbox", "criteria", "pattern", "credentials"}

DoneWithOneSummary == pc = "done" /\ Len(returnData) = 1

\* C8 as stated: every invocation in which no external call fails reaches
\* Done with exactly one summary.
C8_AsStated == [](~ExternalCallFailed) => <>DoneWithOneSummary

\* C8: an invocation whose parameters and credentials are accepted and in
\* which no external call fails reaches Done having pushed exactly one
\* summary; no invocation pushes two, and none is Done without one.
C8_OneSummary ==
    /\ [](Len(returnData) <= 1)
    /\ [](pc = "done" => Len(returnData) = 1 /\ thrown = Undefined)
    /\ [](~ExternalCallFailed /\ ~InputRejected) => <>DoneWithOneSummary

\* Done after every candidate was visited without a match: the path on
\* which the summary is pushed after the loop.
C8_Witness ==
    /\ DoneWithOneSummary
    /\ totalCandidates >= 2
    /\ scanned = totalCandidates
    /\ MatchingPositions = {}

SearchCalled == \E i \in 1..Len(calls) : calls[i].op = "search"

\* The search resolved, with no list or with an empty one.
SearchGaveNothing ==
    /\ SearchCalled
    /\ ~(pending # Undefined /\ pending[1].stage = "search")
    /\ searchResult = Undefined \/ searchResult[1] = <<>>

\* C9: after a search that gave no identifier the scan is at its teardown or
\* over: no fetch has been issued and the one output item is the summary
\* with matches = 0, scanned = 0, totalCandidates = 0 and no match record.
C9_NoCandidates ==
    SearchGaveNothing =>
        /\ pc \in {"teardown", "done", "failed"}
        /\ \A i \in 1..Len(calls) : calls[i].op # "fetchOne"
        /\ Len(returnData) = 1
        /\ TheSummary = [matches |-> 0, totalCandidates |-> 0, scanned |-> 0,
                         matchDetails |-> <<>>]
        /\ pending = Undefined
        /\ ~Finished => calls[Len(calls)].op = "search"
        /\ Finished => calls[Len(calls) - 1].op = "search"

\* The search resolved without a list, and the scan is done.
C9_Witness ==
    /\ SearchGaveNothing
    /\ searchResult = Undefined
    /\ pc = "done"
    /\ TheSummary.totalCandidates = 0

\* The position of the m-th matching candidate among the visited ones.
NthMatching(m) ==
    CHOOSE k \in MatchingPositions : Cardinality({j \in MatchingPositions : j <= k}) = m

\* C10: with stopAfterFirst disabled and maxResults = 0 the loop is left
\* only after the last candidate: the summary has scanned = totalCandidates,
\* every candidate was fetched, and the match list has one record, in
\* order, for every candidate whose provenance is non-empty.
C10_NoEarlyExit ==
    (~stopAfterFirstOf(input.options) /\ maxResultsOf(input.options) = 0) =>
        /\ (pc = "teardown" /\ pending = Undefined) => scanned = totalCandidates
        /\ HasSummary =>
              /\ TheSummary.scanned = TheSummary.totalCandidates
              /\ Len(StructuralFetches) = SearchLength
              /\ Len(visited) = SearchLength
              /\ Len(TheSummary.matchDetails) = Cardinality(MatchingPositions)
              /\ \A m \in 1..Len(TheSummary.matchDetails) :
                    TheSummary.matchDetails[m]["imapUid"] = NumText[visited[NthMatching(m)].uid]

\* Every one of four candidates matched and the scan went through them all.
C10_Witness ==
    /\ ~stopAfterFirstOf(input.options)
    /\ maxResultsOf(input.options) = 0
    /\ pc = "done"
    /\ TheSummary.totalCandidates = 4
    /\ TheSummary.scanned = 4
    /\ Len(TheSummary.matchDetails) = 4


IsSourceFetch(c) == c.op = "fetchOne" /\ c.arg.query = SourceQuery
SourceFetches == SelectSeq(calls, IsSourceFetch)

\* The record pushed for a visited candidate is in the match list.
HasRecord(v) == \E m \in 1..Len(matches) : matches[m]["imapUid"] = NumText[v.uid]

\* C11: the calls of a scan are made one at a time, each settled before the
\* next: no step makes two calls, a raw-message fetch directly follows the
\* structural fetch of the same candidate, and when the fetch for candidate
\* k+1 is issued the inspection of candidate k is over: its record, when it
\* matched, is in the match list and its raw-message fetch, when one is
\* configured, has been made.
C11_Sequential ==
    /\ [](\A i \in 1..Len(calls) :
             IsSourceFetch(calls[i]) =>
                 /\ i > 1
                 /\ IsStructuralFetch(calls[i - 1])
                 /\ calls[i - 1].arg.uid = calls[i].arg.uid)
    /\ [](\A k \in 1..Len(visited) :
             (k < Len(StructuralFetches) /\ Matching(visited[k])) =>
                 /\ HasRecord(visited[k])
                 /\ includeRawMessageOf(input.options) =>
                       \E i \in 1..Len(calls) :
                          /\ IsSourceFetch(calls[i])
                          /\ calls[i].arg.uid = NumText[visited[k].uid])
    /\ [](pc = "fetchOne" => entry = Undefined /\ Len(matches) = Cardinality(MatchingPositions))
    /\ [][Len(calls') <= Len(calls) + 1]_vars

\* Two candidates matched with the raw message configured, and candidates
\* were fetched after the first of them.
C11_Witness ==
    /\ pc = "done"
    /\ includeRawMessageOf(input.options)
    /\ Len(SourceFetches) = 2
    /\ MatchingPositions = {1, 3}

\* The await a call belongs to.
StageOf(c) ==
    IF c.op = "fetchOne"
    THEN IF c.arg.query = StructuralQuery THEN "fetchOne" ELSE "fetchSource"
    ELSE c.op

\* The position of the last call of the try block: the last call, or the one
\* before it when the last call is the finally block's.
LastTryCall ==
    IF calls # <<>> /\ IsTeardown(calls[Len(calls)]) THEN Len(calls) - 1 ELSE Len(calls)

\* The call was made before the position: the same operation for connect,
\* mailboxOpen and search, the same operation for the same candidate for a
\* fetch.
MadeBefore(c, position) ==
    \E j \in 1..(position - 1) :
        /\ calls[j].op = c.op
        /\ c.op = "fetchOne" => calls[j].arg = c.arg

\* C12: nothing is retried. No call is made that was made before, in any
\* state, so that connect, mailboxOpen and search are each called at most
\* once and the structural fetch at most once per candidate (and never for
\* more candidates than the search gave); and when a call has failed it is
\* the last call of the try block, made that one time only: the failure is
\* taken without the operation being called again.
C12_NoRetry ==
    /\ calls # <<>> => ~MadeBefore(calls[Len(calls)], Len(calls))
    /\ Len(StructuralFetches) <= totalCandidates
    /\ pending # Undefined =>
          /\ LastTryCall > 0
          /\ ~IsTeardown(calls[LastTryCall])
          /\ StageOf(calls[LastTryCall]) = pending[1].stage
          /\ ~MadeBefore(calls[LastTryCall], LastTryCall)

\* The structural fetch of the third candidate failed and the item has
\* ended with that failure.
C12_Witness ==
    /\ pc = "failed"
    /\ pending # Undefined
    /\ pending[1].stage = "fetchOne"
    /\ Len(StructuralFetches) = 3
    /\ Len(visited) = 2

\* A provenance string of the header pass: `headers: ${cleaned}`.
IsHeaderProvenance(s) == Len(s) = 2 /\ s[1] = "headers: "
HasHeaderProvenance(list) == \E i \in 1..Len(list) : IsHeaderProvenance(list[i])

\* The visited candidates whose message was inspected, and what the two
\* passes give on the message of one.
Inspected == {k \in 1..Len(visited) :
                 visited[k].response # Undefined /\ visited[k].response[1].uid # 0}
TreePass(v) == collectEncodingMatches(v.response[1].bodyStructure, encodingRegex[1])
HeaderPass(v) ==
    IF v.response[1].headers = Undefined THEN <<>>
    ELSE collectHeaderEncodingMatches(v.response[1].headers[1], encodingRegex[1])

RecordsOf(v) == SelectSeq(matches, LAMBDA m : m["imapUid"] = NumText[v.uid])

\* C13: the header pass contributes only when the part-tree pass found
\* nothing. For a message on which the part-tree pass found a match, the
\* provenance is the part-tree pass's alone and no string of the form
\* 'headers: ...' appears in it or in the message's record; a header string
\* in the provenance means the part-tree pass returned no string, and the
\* provenance is then the header pass's.
C13_HeaderFallback ==
    \A k \in Inspected :
        LET v == visited[k]
            tree == TreePass(v)
            records == RecordsOf(v)
        IN  /\ HasHeaderProvenance(v.suspectDetails) => tree = <<>>
            /\ IF tree # <<>>
               THEN /\ v.suspectDetails = tree
                    /\ ~HasHeaderProvenance(v.suspectDetails)
                    /\ \A m \in 1..Len(records) :
                          ~HasHeaderProvenance(records[m]["matchSources"])
               ELSE v.suspectDetails = HeaderPass(v)

\* A message matched by its part tree whose headers would have matched too
\* has its record, and a message matched by its headers alone has one.
C13_Witness ==
    /\ pc = "done"
    /\ \E k \in Inspected :
          /\ TreePass(visited[k]) # <<>>
          /\ HeaderPass(visited[k]) # <<>>
          /\ Len(RecordsOf(visited[k])) = 1
    /\ \E k \in Inspected :
          /\ TreePass(visited[k]) = <<>>
          /\ HasHeaderProvenance(visited[k].suspectDetails)
          /\ Len(RecordsOf(visited[k])) = 1

\* The nodes of the tree under a node, the node included.
RECURSIVE NodesOf(_)
NodesOf(node) ==
    {node} \cup UNION {NodesOf(node.childNodes[j]) : j \in 1..Len(node.childNodes)}

RECURSIVE NodeCount(_)
NodeCount(node) ==
    IF node.childNodes = <<>> THEN 1
    ELSE LET below == [j \in 1..Len(node.childNodes) |-> NodeCount(node.childNodes[j])]
             sum[j \in 0..Len(below)] == IF j = 0 THEN 1 ELSE sum[j - 1] + below[j]
         IN  sum[Len(below)]

\* A node whose normalized encoding is non-empty and matches the pattern, and
\* the provenance strings of the nodes of a list that are such, in order.
NodeMatches(node) ==
    /\ cleanEncoding(node.encoding) # <<>>
    /\ regexTest(matcherRegex, cleanEncoding(node.encoding))
ProvenanceOf(nodes) ==
    LET hits == SelectSeq(nodes, NodeMatches)
    IN  [i \in 1..Len(hits) |-> structureMatch(hits[i], cleanEncoding(hits[i].encoding))]

\* C14: the part-tree pass visits every node of the tree exactly once, the
\* children of a node being enqueued whether or not the node matched, and
\* returns exactly one provenance string for each node whose normalized
\* encoding is non-empty and matches the pattern, and none for any other.
C14_EveryNodeOnce ==
    /\ \A i, j \in 1..Len(shiftedNodes) : shiftedNodes[i] = shiftedNodes[j] => i = j
    /\ matcherMatches = ProvenanceOf(shiftedNodes)
    /\ (matcherPc = "loop" /\ shiftedNodes # <<>>) =>
          LET last == shiftedNodes[Len(shiftedNodes)]
          IN  \A j \in 1..Len(last.childNodes) :
                 \E i \in 1..Len(matcherStack) : matcherStack[i] = last.childNodes[j]
    /\ (matcherPc = "returned" /\ matcherStructure # Undefined) =>
          /\ {shiftedNodes[i] : i \in 1..Len(shiftedNodes)} = NodesOf(matcherStructure[1])
          /\ Len(shiftedNodes) = NodeCount(matcherStructure[1])
          /\ Len(matcherMatches) =
                Cardinality({n \in NodesOf(matcherStructure[1]) : NodeMatches(n)})
          /\ matcherMatches = collectEncodingMatches(matcherStructure, matcherRegex)
    /\ (matcherPc = "returned" /\ matcherStructure = Undefined) => matcherMatches = <<>>

\* A chain of three nodes of which only the middle one matches has been
\* walked to the end and gave exactly one string.
C14_Witness ==
    /\ matcherPc = "returned"
    /\ Len(shiftedNodes) = 3
    /\ shiftedNodes[2].childNodes = <<shiftedNodes[3]>>
    /\ ~NodeMatches(shiftedNodes[1])
    /\ NodeMatches(shiftedNodes[2])
    /\ ~NodeMatches(shiftedNodes[3])
    /\ Len(matcherMatches) = 1

\* The strings of a list in the order of their first occurrences.
FirstOccurrences(list) ==
    LET keep == {i \in 1..Len(list) : \A j \in 1..(i - 1) : list[j] # list[i]}
    IN  [n \in 1..Cardinality(keep) |->
            list[CHOOSE i \in keep : Cardinality({j \in keep : j <= i}) = n]]

\* The raw-message fetch of the last visited candidate is awaited, or failed.
RawFetchUnsettled == pc = "fetchSource"
RawFetchFailed == pending # Undefined /\ pending[1].stage = "fetchSource"

\* The iteration of the k-th visited candidate ran to its end.
IterationCompleted(k) ==
    k < Len(visited) \/ (~RawFetchUnsettled /\ ~RawFetchFailed)

\* What holds of the provenance list of every record.
ProvenanceWellFormed ==
    /\ \A m \in 1..Len(matches) :
          LET sources == matches[m]["matchSources"]
          IN  /\ Len(sources) > 0
              /\ \A i, j \in 1..Len(sources) : sources[i] = sources[j] => i = j
              /\ \E k \in 1..Len(visited) :
                    /\ Matching(visited[k])
                    /\ matches[m]["imapUid"] = NumText[visited[k].uid]
                    /\ sources = FirstOccurrences(visited[k].suspectDetails)
    /\ \A k \in 1..Len(visited) : Len(RecordsOf(visited[k])) <= 1

\* C15 as stated: once the item is over, a visited candidate has a record
\* if and only if its fetch returned a message with an identifier and the
\* provenance of the two passes is non-empty. Violated when the raw-message
\* fetch of a matching candidate fails.
C15_AsStated ==
    /\ Finished => \A k \in 1..Len(visited) : HasRecord(visited[k]) <=> Matching(visited[k])
    /\ ProvenanceWellFormed

\* C15, amended: a visited candidate whose iteration ran to its end (its
\* raw-message fetch, when one is configured, did not fail) has a record if
\* and only if its fetch returned a message with an identifier and the
\* provenance of the two passes is non-empty; a candidate has at most one
\* record; every record's provenance list is non-empty, holds no string
\* twice, and keeps the strings of the passes in first-occurrence order.
C15_RecordIffProvenance ==
    /\ \A k \in 1..Len(visited) :
          /\ HasRecord(visited[k]) => Matching(visited[k])
          /\ IterationCompleted(k) => (Matching(visited[k]) => HasRecord(visited[k]))
    /\ ProvenanceWellFormed

\* The item is over with a record whose passes gave one string twice and
\* another between, and with a visited candidate that has no record.
C15_Witness ==
    /\ pc = "done"
    /\ \E k \in 1..Len(visited) :
          /\ HasRecord(visited[k])
          /\ Len(visited[k].suspectDetails) = 3
          /\ Len(RecordsOf(visited[k])[1]["matchSources"]) = 2
    /\ \E k \in 1..Len(visited) : ~Matching(visited[k]) /\ ~HasRecord(visited[k])

\* A document that holds no token: null, or an array of such documents.
RECURSIVE HoldsNoToken(_)
HoldsNoToken(document) ==
    \/ document.t = "null"
    \/ document.t = "arr" /\ \A i \in 1..Len(document.v) : HoldsNoToken(document.v[i])

\* The criteria are an array that flattens to no token, or an object
\* without fields.
EmptyCriteria ==
    \/ criteriaInput.t = "arr" /\ HoldsNoToken(criteriaInput)
    \/ criteriaInput.t = "obj" /\ DOMAIN criteriaInput.v = {}

CompilationOver == compilerPc \in {"returned", "thrown"}
CompilationReturned == compilerPc = "returned"
CompilationThrew == compilerPc = "thrown"

\* C16: compiling a token list that flattens to no token, or an object
\* without fields, returns exactly { all: true }, and no compilation, of
\* tokens or of an object, returns a predicate without fields.
C16_MatchAll ==
    /\ (CompilationOver /\ EmptyCriteria) => compilerResult = Some(Returned(MatchAll))
    /\ CompilationReturned =>
          /\ compilerResult # Undefined
          /\ compilerResult[1].ok
          /\ Cardinality(ObjectKeys(compilerResult[1].value)) > 0
    /\ (compilerPc = "loop" /\ EmptyCriteria) => compilerTokens = <<>> /\ shifted = <<>>

\* An array of an empty array and a null went through the loop and gave
\* { all: true }.
C16_Witness ==
    /\ CompilationReturned
    /\ criteriaInput = Arr(<<Arr(<<>>), Null>>)
    /\ compilerResult = Some(Returned(MatchAll))

\* The token list the compilation works on: the criteria array flattened.
TokenMode == criteriaInput.t = "arr" /\ flattenSearchTokens(criteriaInput).ok
FlatTokens == flattenSearchTokens(criteriaInput).value

\* The position in the token list of the last token shifted as a keyword,
\* that keyword upper-cased, and the number of tokens after it.
LastKeywordAt ==
    CHOOSE p \in 1..Len(shifted) :
        /\ shifted[p].use = "keyword"
        /\ \A q \in (p + 1)..Len(shifted) : shifted[q].use = "value"
LastKeyword == toUpperCase(shifted[LastKeywordAt].raw)
TokensAfterLastKeyword == Len(FlatTokens) - LastKeywordAt

SingleArgumentKeywords ==
    {"FROM", "TO", "CC", "BCC", "SUBJECT", "BODY", "LARGER", "SMALLER", "BEFORE", "ON",
     "SINCE", "SENTBEFORE", "SENTON", "SENTSINCE", "UID"}

\* The keyword last shifted lacks a value: a single-argument keyword that is
\* the final token, or HEADER with fewer than two tokens after it.
ArgumentMissing ==
    /\ TokenMode
    /\ shifted # <<>>
    /\ \/ LastKeyword \in SingleArgumentKeywords /\ TokensAfterLastKeyword = 0
       \/ LastKeyword = "HEADER" /\ TokensAfterLastKeyword < 2

\* C17: when the compiler takes as a keyword, in whatever letter case, a
\* single-argument keyword that is the final token of the list, or HEADER
\* with fewer than two tokens after it, the compilation throws the
\* missing-argument error naming that keyword and returns no predicate; the
\* missing-argument error is thrown in no other case.
C17_MissingArgument ==
    /\ ArgumentMissing =>
          /\ CompilationThrew
          /\ compilerResult = Some(Thrown(MissingValueError(LastKeyword)))
    /\ (TokenMode /\ CompilationThrew /\ shifted # <<>>
           /\ compilerResult = Some(Thrown(MissingValueError(LastKeyword)))) => ArgumentMissing

\* 'Sentbefore' came last after a flag and the compilation threw
\* 'SENTBEFORE requires an additional value.'
C17_Witness ==
    /\ CompilationThrew
    /\ TokenMode
    /\ FlatTokens = <<"unseen", "Sentbefore">>
    /\ compilerResult = Some(Thrown(<<"SENTBEFORE", " requires an additional value.">>))

\* The tokens shifted so far, in the order they were shifted.
Consumed == [p \in 1..Len(shifted) |-> shifted[p].raw]

\* The number of tokens a keyword takes after itself.
Arity(keyword) ==
    IF keyword \in SingleArgumentKeywords THEN 1
    ELSE IF keyword = "HEADER" THEN 2
    ELSE 0

KeywordPositions == {p \in 1..Len(shifted) : shifted[p].use = "keyword"}

\* The cursor: the tokens shifted and the tokens left are the token list,
\* in its order; the first token is a keyword, the tokens a keyword takes
\* follow it as values and the token after them is the next keyword.
SingleCursor ==
    /\ SubSeq(FlatTokens, 1, Len(shifted)) = Consumed
    /\ ~CompilationThrew => Consumed \o compilerTokens = FlatTokens
    /\ CompilationReturned => Len(shifted) = Len(FlatTokens)
    /\ shifted # <<>> => 1 \in KeywordPositions
    /\ \A p \in KeywordPositions :
          LET n == Arity(toUpperCase(shifted[p].raw))
          IN  /\ \A q \in (p + 1)..(p + n) : q <= Len(shifted) => shifted[q].use = "value"
              /\ p + n + 1 <= Len(shifted) => shifted[p + n + 1].use = "keyword"
              /\ ~CompilationThrew => p + n <= Len(shifted)

\* The positions of the single-argument keywords whose value was shifted
\* and whose field no later keyword has assigned again.
LastAssignments ==
    {p \in KeywordPositions :
        /\ toUpperCase(shifted[p].raw) \in SingleArgumentKeywords
        /\ p + 1 <= Len(shifted)
        /\ \A q \in KeywordPositions :
              (q > p /\ q + 1 <= Len(shifted)) =>
                  toUpperCase(shifted[q].raw) # toUpperCase(shifted[p].raw)}

FieldOf(p) == ArgField[toUpperCase(shifted[p].raw)]

\* C18 as stated: one cursor, and after every single-argument keyword the
\* next token is the field's value as it was supplied. Violated by LARGER
\* and SMALLER, whose field is Number(token).
C18_AsStated ==
    (TokenMode /\ compilerPc # "start") =>
        /\ SingleCursor
        /\ \A p \in LastAssignments :
              /\ FieldOf(p) \in DOMAIN compilerSearch
              /\ compilerSearch[FieldOf(p)] = Str(shifted[p + 1].raw)

\* C18, amended: the tokens are consumed left to right with one cursor, each
\* exactly once: after a single-argument keyword at position i the token at
\* i+1 is taken as its value, never as a keyword even if it spells one, and
\* the next keyword is at i+2; after HEADER the next keyword is at i+3, after
\* a flag at i+1. The value is stored as supplied, without case folding,
\* except for LARGER and SMALLER, which store Number(token).
C18_SingleCursor ==
    (TokenMode /\ compilerPc # "start") =>
        /\ SingleCursor
        /\ \A p \in LastAssignments :
              /\ FieldOf(p) \in DOMAIN compilerSearch
              /\ compilerSearch[FieldOf(p)] =
                    IF toUpperCase(shifted[p].raw) \in {"LARGER", "SMALLER"}
                    THEN NumberOf(shifted[p + 1].raw)
                    ELSE Str(shifted[p + 1].raw)

\* 'FROM from unseen' was compiled: 'from' was stored as the value of FROM
\* in lower case and 'unseen' was the next keyword.
C18_Witness ==
    /\ CompilationReturned
    /\ TokenMode
    /\ FlatTokens = <<"FROM", "from", "unseen">>
    /\ compilerSearch["from"] = Str("from")
    /\ compilerSearch["seen"] = Bool(FALSE)
    /\ shifted[2].use = "value"
    /\ shifted[3].use = "keyword"

\* The vocabulary: the cases of the switch.
ZeroArgumentKeywords ==
    {"ALL", "SEEN", "UNSEEN", "ANSWERED", "UNANSWERED", "DELETED", "UNDELETED", "DRAFT",
     "UNDRAFT", "FLAGGED", "UNFLAGGED", "RECENT", "OLD", "NEW"}
Vocabulary == ZeroArgumentKeywords \cup SingleArgumentKeywords \cup {"HEADER"}

IsUnsupportedTokenError(result) ==
    /\ ~result.ok
    /\ Len(result.error) = 2
    /\ result.error[1] = "Unsupported search token "

\* C19: a token taken as a keyword that, upper-cased, is not in the
\* vocabulary makes the compilation throw the unsupported-token error, whose
\* message holds the token as it was supplied; a token that spells a keyword
\* of the vocabulary in any letter case never does.
C19_UnsupportedToken ==
    (TokenMode /\ shifted # <<>>) =>
        LET rawToken == shifted[LastKeywordAt].raw
        IN  /\ toUpperCase(rawToken) \notin Vocabulary =>
                 /\ CompilationThrew
                 /\ compilerResult = Some(Thrown(<<"Unsupported search token ", rawToken>>))
            /\ toUpperCase(rawToken) \in Vocabulary =>
                 \/ compilerResult = Undefined
                 \/ ~IsUnsupportedTokenError(compilerResult[1])

\* 'bogus' came after a flag and the compilation threw the error naming
\* 'bogus', not 'BOGUS'.
C19_Witness ==
    /\ CompilationThrew
    /\ TokenMode
    /\ FlatTokens = <<"Unseen", "bogus">>
    /\ toUpperCase("bogus") # "bogus"
    /\ compilerResult = Some(Thrown(<<"Unsupported search token ", "bogus">>))

\* The flag pairs and the field of each.
PlainFlags == {"SEEN", "ANSWERED", "DELETED", "DRAFT", "FLAGGED"}
NegatedFlags == {"UNSEEN", "UNANSWERED", "UNDELETED", "UNDRAFT", "UNFLAGGED"}
PairField(keyword) ==
    CASE keyword \in {"SEEN", "UNSEEN"} -> "seen"
      [] keyword \in {"ANSWERED", "UNANSWERED"} -> "answered"
      [] keyword \in {"DELETED", "UNDELETED"} -> "deleted"
      [] keyword \in {"DRAFT", "UNDRAFT"} -> "draft"
      [] keyword \in {"FLAGGED", "UNFLAGGED"} -> "flagged"

\* The positions of the flags of the pairs whose field no later flag has
\* assigned again.
LastFlags ==
    {p \in KeywordPositions :
        /\ toUpperCase(shifted[p].raw) \in PlainFlags \cup NegatedFlags
        /\ \A q \in KeywordPositions :
              (q > p /\ toUpperCase(shifted[q].raw) \in PlainFlags \cup NegatedFlags) =>
                  PairField(toUpperCase(shifted[q].raw)) # PairField(toUpperCase(shifted[p].raw))}

\* C20: a flag of the five pairs leaves its field in the predicate with an
\* explicit boolean: true for SEEN, ANSWERED, DELETED, DRAFT and FLAGGED,
\* false for their UN- variants, and the predicate returned carries it.
C20_FlagPairs ==
    TokenMode =>
        \A p \in LastFlags :
            LET keyword == toUpperCase(shifted[p].raw)
                field == PairField(keyword)
            IN  /\ field \in DOMAIN compilerSearch
                /\ compilerSearch[field] = Bool(keyword \in PlainFlags)
                /\ CompilationReturned =>
                      /\ field \in DOMAIN compilerResult[1].value
                      /\ compilerResult[1].value[field] = Bool(keyword \in PlainFlags)

\* 'unseen Flagged' was compiled to { seen: false, flagged: true }.
C20_Witness ==
    /\ CompilationReturned
    /\ TokenMode
    /\ FlatTokens = <<"unseen", "Flagged">>
    /\ compilerResult[1].value["seen"] = Bool(FALSE)
    /\ compilerResult[1].value["flagged"] = Bool(TRUE)

\* The positions of the HEADER keywords whose name and value were shifted,
\* the name each assigns, lower-cased, and the value it stores.
HeaderPositions ==
    {p \in KeywordPositions :
        toUpperCase(shifted[p].raw) = "HEADER" /\ p + 2 <= Len(shifted)}
HeaderNameAt(p) == toLowerCase(shifted[p + 1].raw)
HeaderValueAt(p) ==
    LET value == shifted[p + 2].raw
    IN  IF toLowerCase(value) = "true" THEN Bool(TRUE)
        ELSE IF toLowerCase(value) = "false" THEN Bool(FALSE)
        ELSE Str(value)

\* The HEADER keyword that assigned a name last.
LastHeaderOf(name) ==
    CHOOSE p \in HeaderPositions :
        /\ HeaderNameAt(p) = name
        /\ \A q \in HeaderPositions : HeaderNameAt(q) = name => q <= p

\* C21: the HEADER tokens of a list accumulate into one header mapping keyed
\* by the lower-cased header name: every name given is a key of it, a name
\* given more than once holds the value given last, and a value that is
\* 'true' or 'false' in any letter case is stored as the boolean, any other
\* value as the string supplied. Without a HEADER token there is no mapping.
C21_HeaderMapping ==
    (TokenMode /\ compilerPc # "start") =>
        IF HeaderPositions = {}
        THEN "header" \notin DOMAIN compilerSearch
        ELSE /\ "header" \in DOMAIN compilerSearch
             /\ compilerSearch["header"].t = "obj"
             /\ DOMAIN compilerSearch["header"].v = {HeaderNameAt(p) : p \in HeaderPositions}
             /\ \A name \in DOMAIN compilerSearch["header"].v :
                   compilerSearch["header"].v[name] = HeaderValueAt(LastHeaderOf(name))

\* [HEADER, X-Test, true, HEADER, X-Test, value2] was compiled and the
\* mapping returned holds x-test = "value2" and nothing else.
C21_Witness ==
    /\ CompilationReturned
    /\ TokenMode
    /\ FlatTokens = <<"HEADER", "X-Test", "true", "HEADER", "X-Test", "value2">>
    /\ compilerResult[1].value["header"] = Obj([k \in {"x-test"} |-> Str("value2")])


\* ------------------------------------------------------ flattening (C22, C23)

\* Whether a value is an object or holds one at any depth.
RECURSIVE HasObject(_)
HasObject(value) ==
    \/ value.t = "obj"
    \/ value.t = "arr" /\ \E i \in 1..Len(value.v) : HasObject(value.v[i])

\* The index paths from a value to the primitives in it that are not null,
\* the value at the end of a path, and the order of two such paths by the
\* first index at which they differ.
RECURSIVE LeafPaths(_)
LeafPaths(value) ==
    IF value.t = "arr"
    THEN UNION {{<<i>> \o path : path \in LeafPaths(value.v[i])} : i \in 1..Len(value.v)}
    ELSE IF value.t = "null" THEN {} ELSE {<<>>}

RECURSIVE ValueAt(_, _)
ValueAt(value, path) ==
    IF path = <<>> THEN value ELSE ValueAt(value.v[Head(path)], Tail(path))

PathBefore(p, q) ==
    \E k \in 1..Len(p) :
        /\ k <= Len(q)
        /\ p[k] < q[k]
        /\ \A j \in 1..(k - 1) : p[j] = q[j]

\* The primitives of a value that are not null, as strings, in depth-first
\* pre-order: the i-th is the one with i - 1 paths before its own.
PreOrder(value) ==
    LET paths == LeafPaths(value)
    IN  [i \in 1..Cardinality(paths) |->
            StringOf(ValueAt(value,
                CHOOSE p \in paths : Cardinality({q \in paths : PathBefore(q, p)}) = i - 1))]

\* C22: flattening a nested token list that holds no object gives its
\* primitives that are not null, as strings, in depth-first pre-order (nulls
\* dropped, nested sequences expanded in place), these are the tokens the
\* compilation starts from, and flattening the flattened list gives it again.
C22_PreOrder ==
    (criteriaInput.t = "arr" /\ shifted = <<>> /\ ~HasObject(criteriaInput)) =>
        LET flat == flattenSearchTokens(criteriaInput)
        IN  /\ flat = Returned(PreOrder(criteriaInput))
            /\ compilerPc # "start" => compilerTokens = flat.value
            /\ flattenSearchTokens(Arr([i \in 1..Len(flat.value) |-> Str(flat.value[i])])) = flat

C22_Witness ==
    /\ criteriaInput = Arr(<<Str("seen"),
                             Arr(<<Null, Str("FROM"), Arr(<<Str("alice")>>)>>),
                             Str("LARGER"), Num(5)>>)
    /\ compilerPc = "loop"
    /\ shifted = <<>>
    /\ compilerTokens = <<"seen", "FROM", "alice", "LARGER", "5">>

\* C23: an object at any depth of a token list makes the flattening throw the
\* nested-objects error whatever tokens come before the object; the
\* compilation then ends with that error, holding no token and no predicate.
C23_NestedObject ==
    (criteriaInput.t = "arr" /\ HasObject(criteriaInput)) =>
        /\ flattenSearchTokens(criteriaInput) = Thrown(NestedObjectError)
        /\ compilerPc \in {"start", "thrown"}
        /\ compilerTokens = <<>>
        /\ compilerSearch = EmptyObject
        /\ shifted = <<>>
        /\ compilerPc = "thrown" => compilerResult = Some(Thrown(NestedObjectError))
        /\ compilerPc = "start" => compilerResult = Undefined

C23_Witness ==
    /\ criteriaInput = Arr(<<Str("seen"), Arr(<<Obj([seen |-> Bool(TRUE)])>>)>>)
    /\ compilerPc = "thrown"
    /\ compilerResult = Some(Thrown(NestedObjectError))
    /\ compilerTokens = <<>>

\* --------------------------------------------------- the predicate's keys (C24)

\* The fields the cases of tokensToSearchObject assign.
RecognizedKeys ==
    {"all", "seen", "answered", "deleted", "draft", "flagged", "recent", "old", "new",
     "from", "to", "cc", "bcc", "subject", "body", "larger", "smaller", "before", "on",
     "since", "sentBefore", "sentOn", "sentSince", "uid", "header"}

ObjectMode == criteriaInput.t = "obj"

\* C24 as stated: every predicate the compilation returns, from tokens or
\* from an object, has recognized keys only. Violated by an object with
\* another key, which is returned as it was supplied.
C24_AsStated ==
    CompilationReturned => ObjectKeys(compilerResult[1].value) \subseteq RecognizedKeys

\* C24: every predicate compiled from a token list, at every step of the
\* compilation, has recognized keys only, and an object is returned as it was
\* supplied whatever its keys, or as { all: true } when it has none.
C24_RecognizedKeys ==
    /\ criteriaInput.t = "arr" =>
          /\ ObjectKeys(compilerSearch) \subseteq RecognizedKeys
          /\ CompilationReturned =>
                ObjectKeys(compilerResult[1].value) \subseteq RecognizedKeys
    /\ (ObjectMode /\ CompilationOver) =>
          compilerResult = Some(Returned(IF ObjectKeys(criteriaInput.v) = {} THEN MatchAll
                                         ELSE criteriaInput.v))

\* An object with a key the compiler never assigns was returned as supplied.
C24_Witness ==
    /\ ObjectMode
    /\ CompilationReturned
    /\ criteriaInput.v = [k \in {"from", "text"} |-> Str("alice")]
    /\ compilerResult = Some(Returned(criteriaInput.v))

\* ------------------------------------------------- progress messages (C25)

\* The progress messages written at the k-th visited candidate.
NotificationsAt(k) == {i \in 1..Len(logs) : logs[i].scanned = k}

\* C25: with a progress interval above 0 exactly one progress message is
\* written for every visited candidate at which the scanned count is a
\* positive multiple of the interval, whether or not the candidate matched
\* or its fetch gave a message, and none for any other candidate; with the
\* interval 0 none is ever written. Violated at a candidate whose fetch
\* gives no message, or one without uid, when the count is a multiple.
C25_Progress ==
    LET progressEvery == progressEveryOf(input.options)
    IN  \A k \in 1..Len(visited) :
            IterationCompleted(k) =>
                Cardinality(NotificationsAt(k)) =
                    IF progressEvery > 0 /\ k % progressEvery = 0 THEN 1 ELSE 0

\* ------------------------------------------------ message identifier (C26, C27)

\* The identifier in the envelope of a fetched message, empty when the
\* message has no envelope or the envelope no identifier; and whether a
\* header text, when there is one, has a Message-ID line.
EnvelopeId(message) ==
    IF message.envelope = Undefined THEN <<>> ELSE message.envelope[1].messageId

HasMessageIdLine(message) ==
    /\ message.headers # Undefined
    /\ \E i \in 1..Len(message.headers[1]) :
          /\ message.headers[1][i] # <<>>
          /\ fieldName(Head(message.headers[1][i])) = "Message-ID:"

\* C26: for every message inspected, extraction returns the envelope's
\* identifier when the envelope has a non-empty one, whatever the headers
\* hold, and the record of the message carries it; a record carries another
\* identifier only when the envelope has none, and it is then the one
\* extraction finds in the headers alone.
C26_EnvelopeFirst ==
    \A k \in Inspected :
        LET message == visited[k].response[1]
            records == RecordsOf(visited[k])
        IN  /\ EnvelopeId(message) # <<>> =>
                  /\ extractMessageId(message.envelope, message.headers)
                        = Some(EnvelopeId(message))
                  /\ \A m \in 1..Len(records) :
                        /\ "messageId" \in DOMAIN records[m]
                        /\ records[m]["messageId"] = EnvelopeId(message)
            /\ \A m \in 1..Len(records) :
                  ("messageId" \in DOMAIN records[m] /\ EnvelopeId(message) = <<>>) =>
                      /\ HasMessageIdLine(message)
                      /\ Some(records[m]["messageId"])
                            = extractMessageId(Undefined, message.headers)

\* A record carries the envelope's identifier, the headers of its message
\* holding another.
C26_Witness ==
    \E k \in Inspected :
        /\ visited[k].response[1].headers = Some(SuspectHeaders)
        /\ extractMessageId(Undefined, visited[k].response[1].headers) = Some(<<"<h@x>">>)
        /\ HasRecord(visited[k])
        /\ RecordsOf(visited[k])[1]["messageId"] = <<"<e@x>">>

\* C27: when the envelope of a matching message has no identifier and the
\* message has no headers, or headers without Message-ID line, extraction
\* returns undefined, and once the candidate's iteration is over the record
\* is in the match list, without messageId field.
C27_NoIdentifier ==
    \A k \in Inspected :
        LET message == visited[k].response[1]
            records == RecordsOf(visited[k])
        IN  (EnvelopeId(message) = <<>> /\ ~HasMessageIdLine(message)) =>
                /\ extractMessageId(message.envelope, message.headers) = Undefined
                /\ (Matching(visited[k]) /\ IterationCompleted(k)) =>
                      /\ Len(records) = 1
                      /\ "messageId" \notin DOMAIN records[1]

C27_Witness ==
    /\ pc = "done"
    /\ thrown = Undefined
    /\ \E k \in Inspected :
          /\ EnvelopeId(visited[k].response[1]) = <<>>
          /\ visited[k].response[1].headers = Undefined
          /\ HasRecord(visited[k])
          /\ "messageId" \notin DOMAIN RecordsOf(visited[k])[1]

\* --------------------------------------------- the loop's counters (C28)

\* A step answers the structural fetch of one more candidate.
VisitsCandidate == Len(visited') = Len(visited) + 1

\* C28: at every step of a scan the scanned counter and the match list only
\* grow. The counter grows by exactly 1 with every candidate visited and in
\* no other step; the match list of a state is a prefix of the list of the
\* next, longer by at most one record, which is the record of the candidate
\* visited last, so that no candidate has two records; and when the fetch
\* for the next candidate is issued no entry under construction is left.
C28_OnlyGrow ==
    /\ [](/\ scanned = Len(visited)
          /\ Len(matches) <= scanned
          /\ \A k \in 1..Len(visited) : Len(RecordsOf(visited[k])) <= 1
          /\ pc = "fetchOne" => entry = Undefined)
    /\ [][/\ scanned' = IF VisitsCandidate THEN scanned + 1 ELSE scanned
          /\ Len(visited') \in {Len(visited), Len(visited) + 1}
          /\ Len(matches') \in {Len(matches), Len(matches) + 1}
          /\ SubSeq(matches', 1, Len(matches)) = matches
          /\ Len(matches') = Len(matches) + 1 =>
                matches'[Len(matches')]["imapUid"] = NumText[visited'[Len(visited')].uid]]_vars

\* The second record was appended to the first while the counter stood at 3.
C28_Witness ==
    /\ scanned = 3
    /\ Len(matches) = 2
    /\ Len(visited) = 3
    /\ ~Matching(visited[2])
    /\ pc = "fetchOne"

\* ------------------------------------------- order of the part-tree pass (C29)

\* The depth of a node of the tree under root: 0 for the root itself.
RECURSIVE DepthIn(_, _)
DepthIn(root, node) ==
    IF root = node THEN 0
    ELSE LET j == CHOOSE c \in 1..Len(root.childNodes) : node \in NodesOf(root.childNodes[c])
         IN  1 + DepthIn(root.childNodes[j], node)

\* The nodes of the tree level by level, each level in the order of the
\* childNodes lists of the level above.
RECURSIVE LevelsFrom(_)
LevelsFrom(level) ==
    IF level = <<>> THEN <<>>
    ELSE LET below[j \in 0..Len(level)] ==
                 IF j = 0 THEN <<>> ELSE below[j - 1] \o level[j].childNodes
         IN  level \o LevelsFrom(below[Len(level)])

PositionShifted(node) == CHOOSE i \in 1..Len(shiftedNodes) : shiftedNodes[i] = node

\* C29: the part-tree pass takes the nodes, and so emits their provenance
\* strings, in breadth-first order: the root first, no node before a node of
\* smaller depth, the children of a node in the order of its childNodes, and
\* in the end every string in the order of the tree's levels.
C29_BreadthFirst ==
    matcherStructure # Undefined =>
        LET root == matcherStructure[1]
        IN  /\ shiftedNodes # <<>> => shiftedNodes[1] = root
            /\ \A i, j \in 1..Len(shiftedNodes) :
                  i < j => DepthIn(root, shiftedNodes[i]) <= DepthIn(root, shiftedNodes[j])
            /\ \A i \in 1..Len(shiftedNodes) :
                  \A a, b \in 1..Len(shiftedNodes[i].childNodes) :
                      LET first == shiftedNodes[i].childNodes[a]
                          second == shiftedNodes[i].childNodes[b]
                          isShifted(n) == \E p \in 1..Len(shiftedNodes) : shiftedNodes[p] = n
                      IN  (a < b /\ isShifted(second)) =>
                              /\ isShifted(first)
                              /\ i < PositionShifted(first)
                              /\ PositionShifted(first) < PositionShifted(second)
            /\ matcherMatches = ProvenanceOf(shiftedNodes)
            /\ matcherPc = "returned" =>
                  /\ shiftedNodes = LevelsFrom(<<root>>)
                  /\ collectEncodingMatches(matcherStructure, matcherRegex)
                        = ProvenanceOf(LevelsFrom(<<root>>))

\* A tree whose root has two children, the first with a child of its own,
\* gave four strings: the second child's before the grandchild's.
C29_Witness ==
    /\ matcherPc = "returned"
    /\ Len(shiftedNodes) = 4
    /\ Len(matcherMatches) = 4
    /\ Len(shiftedNodes[1].childNodes) = 2
    /\ shiftedNodes[2].childNodes = <<shiftedNodes[4]>>
    /\ shiftedNodes[3].childNodes = <<>>

\* ------------------------------------------------------- termination (C30)

\* C30: the part-tree pass on a tree ends: the work queue shrinks to nothing
\* and the pass returns, after exactly as many nodes were taken from the
\* queue as the tree has, never more on the way. The loop of the scan ends
\* as well when every call settles: each iteration moves to the next
\* candidate, no more candidates are visited than the search returned, and
\* the invocation is over in the end.
C30_Terminates ==
    /\ [](matcherStructure # Undefined =>
             /\ Len(shiftedNodes) <= NodeCount(matcherStructure[1])
             /\ matcherPc = "returned" =>
                   /\ matcherStack = <<>>
                   /\ Len(shiftedNodes) = NodeCount(matcherStructure[1]))
    /\ [](searchResult # Undefined =>
             /\ idx <= Len(searchResult[1])
             /\ Len(visited) <= Len(searchResult[1]))
    /\ [][(pc = "fetchOne" /\ pc' = "fetchOne") => idx' = idx + 1]_vars
    /\ <>(/\ matcherPc \in {"idle", "returned"}
          /\ pc \in {"idle", "done", "failed"})

\* The pass returned from a tree of four nodes.
C30_Witness ==
    /\ matcherPc = "returned"
    /\ matcherStructure # Undefined
    /\ matcherStack = <<>>
    /\ Len(shiftedNodes) = 4

\* ------------------------------------------------- the raw-message fetch (C31)

\* The options of the item set includeRawMessage to true.
RawMessageRequested ==
    /\ "includeRawMessage" \in DOMAIN input.options
    /\ input.options["includeRawMessage"] = Bool(TRUE)

\* The positions in calls of the fetches made for a uid.
FetchesOf(uid) ==
    {i \in 1..Len(calls) : calls[i].op = "fetchOne" /\ calls[i].arg.uid = NumText[uid]}

\* C31: a raw-message fetch is made only with includeRawMessage set and only
\* for a candidate that matched, once at most for one candidate, and before
\* the loop's exit is decided: while it is awaited the record is not in the
\* match list and no summary is pushed, and every record pushed with the flag
\* set had its fetch made. A candidate that did not match is fetched exactly
\* once, for its structural metadata.
C31_RawFetch ==
    /\ \A i \in 1..Len(calls) :
          IsSourceFetch(calls[i]) =>
              /\ RawMessageRequested
              /\ \E k \in 1..Len(visited) :
                    /\ NumText[visited[k].uid] = calls[i].arg.uid
                    /\ Matching(visited[k])
              /\ \A j \in 1..Len(calls) :
                    (IsSourceFetch(calls[j]) /\ calls[j].arg.uid = calls[i].arg.uid) => j = i
    /\ \A k \in 1..Len(visited) :
          /\ ~Matching(visited[k]) =>
                /\ Cardinality(FetchesOf(visited[k].uid)) = 1
                /\ \A i \in FetchesOf(visited[k].uid) : IsStructuralFetch(calls[i])
          /\ (HasRecord(visited[k]) /\ RawMessageRequested) =>
                \E i \in FetchesOf(visited[k].uid) : IsSourceFetch(calls[i])
    /\ pc = "fetchSource" =>
          /\ RawMessageRequested
          /\ Matching(visited[Len(visited)])
          /\ ~HasRecord(visited[Len(visited)])
          /\ returnData = <<>>
          /\ \A i \in FetchesOf(visited[Len(visited)].uid) : IsStructuralFetch(calls[i])

\* The scan left the loop at its first match, after the raw message of that
\* match was fetched, with candidates left unvisited.
C31_Witness ==
    /\ pc = "done"
    /\ RawMessageRequested
    /\ scanned < totalCandidates
    /\ Len(matches) = 1
    /\ Len(SourceFetches) = 1
    /\ \E k \in 1..Len(visited) : ~Matching(visited[k])

\* ------------------------------------------------ the order of the calls (C32)

\* C32: the calls on the client are made in the order connect, mailboxOpen
\* read-only, search, fetches, then logout or close. A mailboxOpen directly
\* follows the connect, a search the mailboxOpen, a fetch the search or
\* another fetch, and only once the search has returned candidates; the
\* connect is the client's first call, and after logout or close, made once
\* the client exists, nothing is called.
C32_SessionOrder ==
    /\ \A i \in 1..Len(calls) :
          LET c == calls[i]
              before == IF i > 1 THEN calls[i - 1].op ELSE "none"
          IN  /\ c.op \in {"getCredentials", "connect", "mailboxOpen", "search", "fetchOne",
                            "logout", "close"}
              /\ c.op = "getCredentials" => i = 1
              /\ c.op = "connect" => before = "getCredentials"
              /\ c.op = "mailboxOpen" => before = "connect" /\ c.arg.readOnly
              /\ c.op = "search" => before = "mailboxOpen"
              /\ c.op = "fetchOne" =>
                    /\ before \in {"search", "fetchOne"}
                    /\ searchResult # Undefined
                    /\ Len(searchResult[1]) > 0
              /\ IsTeardown(c) =>
                    /\ i = Len(calls)
                    /\ before # "getCredentials"
                    /\ Finished
                    /\ c.op = "logout" <=> \E j \in 1..(i - 1) : calls[j].op = "mailboxOpen"
    /\ Finished => (client <=> (calls # <<>> /\ IsTeardown(calls[Len(calls)])))

\* A scan that fetched two candidates and logged out.
C32_Witness ==
    /\ pc = "done"
    /\ [i \in 1..Len(calls) |-> calls[i].op]
         = <<"getCredentials", "connect", "mailboxOpen", "search", "fetchOne", "fetchOne", "logout">>

\* --------------------------------------------- candidates without message (C33)

\* C33: a candidate whose fetch gives no message, or a message without
\* uid, is counted in scanned, has no provenance and no record, is fetched
\* once, and does not end the loop: when it is not the last candidate the
\* fetch for the next one follows, and when it is, the summary counts it.
\* The scanned count can so exceed the number of messages inspected.
C33_MissingMessage ==
    /\ scanned = Len(visited)
    /\ Cardinality(Inspected) <= scanned
    /\ \A k \in (1..Len(visited)) \ Inspected :
          /\ visited[k].suspectDetails = <<>>
          /\ ~HasRecord(visited[k])
          /\ Cardinality(FetchesOf(visited[k].uid)) = 1
          /\ k < totalCandidates =>
                \/ pc = "fetchOne" /\ k = Len(visited) /\ idx = k
                \/ Cardinality({i \in 1..Len(calls) : IsStructuralFetch(calls[i])}) > k
          /\ k = totalCandidates =>
                /\ HasSummary
                /\ TheSummary["scanned"] = totalCandidates
                /\ TheSummary["matches"] = Len(matches)

\* A scan is over that counted three candidates and inspected fewer: the
\* first gave no message, and the loop went on to a later one that matched.
C33_Witness ==
    /\ pc = "done"
    /\ scanned = 3
    /\ 1 \notin Inspected
    /\ Len(matches) = 1
    /\ TheSummary["scanned"] > Cardinality(Inspected)

\* The operations that leave the messages, the flags and the mailboxes of
\* the server as they are.
ReadingOperations ==
    {"getCredentials", "connect", "mailboxOpen", "search", "fetchOne", "logout", "close"}

ReadsOnly(log) ==
    \A k \in DOMAIN log :
        /\ log[k].op \in ReadingOperations
        /\ log[k].op = "mailboxOpen" => log[k].arg.readOnly

\* C34: the encoding scan and Get Message never change mailbox state: every
\* call either of them has made, on the paths that return and on the paths
\* that throw, is a connect, a read-only mailboxOpen, a search, a fetch, a
\* logout or a close; none is a move, a delete or a flag update.
C34_ReadOnly ==
    /\ ReadsOnly(calls)
    /\ ReadsOnly(getCalls)

\* Get Message has opened the mailbox, searched, been refused the fetch and
\* rejected after its logout.
C34_Witness ==
    /\ getPc = "failed"
    /\ getThrown = Some(Error("fetchOne", <<"fetchOne failed">>))
    /\ [k \in DOMAIN getCalls |-> getCalls[k].op]
           = <<"getCredentials", "connect", "mailboxOpen", "search", "fetchOne", "logout">>

\* The output items pushed so far for the input item of index i.
OutputsOf(i) == {k \in DOMAIN moveReturnData : moveReturnData[k].pairedItem = i}

IsSuccessItem(json) == json.moved /\ "error" \notin DOMAIN json

IsErrorItem(json) == ~json.moved /\ "error" \in DOMAIN json /\ json.error # <<>>

\* C35: in the Message-ID based move with continue-on-fail, execute never
\* rejects; every input item gone through has exactly one output item,
\* paired with its index, which is a success item (moved: true, no error) or
\* an error item (moved: false with an error message); the item in process
\* has none yet; and the items after a failed one are gone through in turn,
\* so that a finished execute has one output item for every input item.
C35_OneOutputPerItem ==
    continueOnFail =>
        /\ movePc # "failed"
        /\ moveThrown = Undefined
        /\ Len(moveReturnData) = moveIndex
        /\ \A i \in 0..(Len(moveItems) - 1) :
              Cardinality(OutputsOf(i)) = IF i < moveIndex THEN 1 ELSE 0
        /\ \A k \in DOMAIN moveReturnData :
              /\ moveReturnData[k].pairedItem = k - 1
              /\ IsSuccessItem(moveReturnData[k].json) # IsErrorItem(moveReturnData[k].json)
        /\ movePc = "done" => moveIndex = Len(moveItems)

\* With continue-on-fail the first item has failed and the second has been
\* moved: one error item, then one success item.
C35_Witness ==
    /\ continueOnFail
    /\ movePc = "done"
    /\ Len(moveReturnData) = 2
    /\ IsErrorItem(moveReturnData[1].json)
    /\ IsSuccessItem(moveReturnData[2].json)
    /\ movedOnServer = {1}

\* C36: in the Message-ID based move an output item that reports
\* moved: false belongs to an item whose message was not moved on the
\* server: the output of an item whose messageMove succeeded reports
\* moved: true, also when the logout that follows fails under
\* continue-on-fail.
C36_MovedReported ==
    \A k \in DOMAIN moveReturnData :
        moveReturnData[k].pairedItem \in movedOnServer => moveReturnData[k].json.moved

\* The position after the calls of the session that the connect at
\* position k of a log opens: the next connect, or the end of the log.
SessionEnd(log, k) ==
    IF \E j \in (k + 1)..Len(log) : log[j].op = "connect"
    THEN CHOOSE j \in (k + 1)..Len(log) :
             /\ log[j].op = "connect"
             /\ \A h \in (k + 1)..(j - 1) : log[h].op # "connect"
    ELSE Len(log) + 1

\* Every session of the log that is over (execute is, or a later session
\* has begun) has the call that ends it: a logout when the connect succeeded
\* (the mailbox was opened next), a close when it failed.
SessionsEnded(log, over) ==
    \A k \in DOMAIN log :
        (log[k].op = "connect" /\ (over \/ SessionEnd(log, k) <= Len(log))) =>
            \E j \in (k + 1)..(SessionEnd(log, k) - 1) :
                log[j].op = IF log[k + 1].op = "mailboxOpen" THEN "logout" ELSE "close"

\* C37: in every version of the move node, for each input item, a client
\* that connected is logged out on every exit path (the item moved,
\* mailboxOpen or messageMove failed, the message not found), and a client
\* that failed to connect is closed.
C37_LoggedOut ==
    /\ SessionsEnded(moveCalls, movePc \in {"done", "failed"})
    /\ SessionsEnded(uidCalls, uidPc \in {"done", "failed"})

\* s.startsWith('<') && s.endsWith('>')
Bracketed(s) == Len(s) > 0 /\ s[1] = "<" /\ s[Len(s)] = ">"

\* One normalization: raw is the trimmed parameter, not empty, normalized
\* what the node made of it, again what the node's normalization makes of
\* normalized.
Normalizes(raw, normalized, again) ==
    /\ raw # <<>>
    /\ raw = trim(raw)
    /\ Bracketed(normalized)
    /\ Bracketed(raw) => normalized = raw
    /\ again = normalized

\* C38: the Message-ID normalization of the move and of Get Message maps
\* every non-empty trimmed input to a string that starts with '<' and ends
\* with '>', leaves an input that is bracketed already as it is, and is
\* idempotent: normalizing the result gives the result.
C38_Normalization ==
    /\ (normalizedMessageId # Undefined /\ moveIndex < Len(moveItems)) =>
          Normalizes(moveItem.messageId, normalizedMessageId[1],
                     normalizeMessageId(normalizedMessageId[1]))
    /\ (getNormalizedMessageId # Undefined /\ getIndex < Len(getItems)) =>
          Normalizes(trim(getItems[getIndex + 1].messageId), getNormalizedMessageId[1],
                     getNormalizeMessageId(getNormalizedMessageId[1]))

\* Get Message has been given the identifier a>, a trailing bracket without
\* the leading one, and has made <a> of it.
C38_Witness ==
    /\ getPc = "connect"
    /\ getItems[1].messageId = <<"a", ">">>
    /\ getNormalizedMessageId = Some(<<"<", "a", ">">>)

=========================================================================
